---- MODULE Spec2Model ----
(***************************************************************************)
(* A model of the data-access layer of sql-refactor: the generic           *)
(* repository (services/base_service.py), the content cache                *)
(* (services/gpt_cache_service.py), the team resolver                      *)
(* (services/team_service.py, models/team.py) and the recruit cascade      *)
(* delete (services/recruit_service.py, db/db_utils.py).                   *)
(*                                                                         *)
(* Strings are sequences of one-character strings, so that lower() and     *)
(* replace() are computed character by character as the code computes      *)
(* them.  Each subsystem has its own variables and its own specification;  *)
(* a specification leaves the other subsystems' variables unchanged.       *)
(***************************************************************************)
EXTENDS Integers, Sequences, FiniteSets, TLC

VARIABLES
    \* team-name normalization, as a pure function applied to an input
    normIn, normOut, normKey, normPc,
    \* the teams and team_aliases tables, their id sequences, and the last
    \* resolver call with the value it returned
    teams, teamSeq, team_aliases, aliasSeq, teamCall, teamRet,
    \* the gpt_cache table, its id sequence, the clock, and the last cache
    \* call with the value it returned
    gpt_cache, cacheSeq, now, cacheCall, cacheRet,
    \* the recruits, schedules and extraction_feedback tables with their id
    \* sequences, and the delete_cascade call in progress: its position, its
    \* argument, the transaction's uncommitted tables and next statement,
    \* what it returned, and (for the claims) the tables when it was called
    \* and the statement that failed
    recruits, schedules, extraction_feedback, recruitSeq, scheduleSeq,
    feedbackSeq, dcPc, dcId, txWork, txStep, dcRet, dcBefore, dcFailedAt,
    \* concurrent alias writers: whether the store enforces the unique
    \* constraint on team_aliases.alias, each caller's position and
    \* arguments, and (for the claims) whether two calls ever overlapped
    aliasUnique, apc, aArg, overlapped,
    \* the generic repository over one table of a type with an integer key:
    \* its rows, the id sequence of the table, and the last call with the
    \* value it returned
    table, idSeq, crudCall, crudRet,
    \* the users and user_settings tables and the create_with_settings call
    \* in progress: its position, the id of its user, its settings, what it
    \* returned, and (for the claims) whether its settings INSERT failed
    users, user_settings, cwPc, cwUser, cwSettings, cwRet, cwFailed,
    \* the email_queue table, its id sequence, and the last queue call with
    \* the value it returned
    email_queue, queueSeq, qCall, qRet,
    \* the scraping_logs table, its id sequence, and the last log call with
    \* the value it returned
    scraping_logs, logSeq, logCall, logRet,
    \* the connection provider: each task's pool_var, how many pools were
    \* created, the pool each task holds a connection of, and each task's
    \* position and call
    pool_var, poolSeq, acquired, ppc, pArg,
    \* concurrent cache callers: each caller's position, its locals and what
    \* its call returned
    cpc, cArg, cRet,
    \* concurrent get_or_create callers: each caller's position, its name
    \* argument and what its call returned
    gpc, gName, gRet

normVars == <<normIn, normOut, normKey, normPc>>
teamVars == <<teams, teamSeq, team_aliases, aliasSeq, teamCall, teamRet>>

cacheVars == <<gpt_cache, cacheSeq, now, cacheCall, cacheRet>>

recruitTables == <<recruits, schedules, extraction_feedback>>
recruitSeqs == <<recruitSeq, scheduleSeq, feedbackSeq>>
dcVars == <<dcPc, dcId, txWork, txStep, dcRet, dcBefore, dcFailedAt>>
recruitVars == <<recruitTables, recruitSeqs, dcVars>>

writerVars == <<aliasUnique, apc, aArg, overlapped>>

crudVars == <<table, idSeq, crudCall, crudRet>>

userVars == <<users, user_settings, cwPc, cwUser, cwSettings, cwRet, cwFailed>>

queueVars == <<email_queue, queueSeq, qCall, qRet>>

logVars == <<scraping_logs, logSeq, logCall, logRet>>

poolVars == <<pool_var, poolSeq, acquired, ppc, pArg>>

raceVars == <<cpc, cArg, cRet>>

getVars == <<gpc, gName, gRet>>

vars == <<normVars, teamVars, cacheVars, recruitVars, writerVars, crudVars, userVars, queueVars, logVars, poolVars, raceVars, getVars>>

\* What each subsystem leaves alone.
notNorm == <<getVars, raceVars, poolVars, logVars, teamVars, cacheVars, recruitVars, writerVars, crudVars, userVars, queueVars>>
notTeam == <<getVars, raceVars, poolVars, logVars, normVars, cacheVars, recruitVars, writerVars, crudVars, userVars, queueVars>>
notCache == <<getVars, raceVars, poolVars, logVars, normVars, teamVars, recruitVars, writerVars, crudVars, userVars, queueVars>>
notRecruit == <<getVars, raceVars, poolVars, logVars, normVars, teamVars, cacheVars, writerVars, crudVars, userVars, queueVars>>
notWriter == <<getVars, raceVars, poolVars, logVars, normVars, cacheVars, recruitVars, crudVars, teams, teamSeq, teamCall, teamRet, userVars, queueVars>>
notUser == <<getVars, raceVars, poolVars, logVars, normVars, teamVars, cacheVars, recruitVars, writerVars, crudVars, queueVars>>
notQueue == <<getVars, raceVars, poolVars, logVars, normVars, teamVars, recruitVars, writerVars, crudVars, userVars,
             gpt_cache, cacheSeq, cacheCall, cacheRet>>
notLog == <<getVars, raceVars, poolVars, normVars, teamVars, cacheVars, recruitVars, writerVars, crudVars, userVars, queueVars>>
notPool == <<getVars, raceVars, normVars, teamVars, cacheVars, recruitVars, writerVars, crudVars, userVars, queueVars, logVars>>
notRace == <<getVars, normVars, teamVars, recruitVars, writerVars, crudVars, userVars, queueVars, logVars, poolVars>>
notGet == <<normVars, cacheVars, recruitVars, writerVars, crudVars, userVars, queueVars, logVars, poolVars, raceVars>>
notCrud == <<getVars, raceVars, poolVars, logVars, normVars, teamVars, recruitVars, writerVars, gpt_cache, cacheSeq, cacheCall, cacheRet, userVars, queueVars>>

\* Python's None where a plain value (a source, a tag) is expected.
NoneVal == "None"

\* Python's None where a string is expected: strings are sequences of
\* characters, and no character is "<None>".
NoneStr == <<"<None>">>

\* The value a call returns: kind says what row holds ("none" for None, the
\* name of the error when the call raised instead).
Ret(kind, row, created) == [kind |-> kind, row |-> row, created |-> created]
NoRow == [id |-> 0]
RetNone == Ret("none", NoRow, FALSE)
RetError(e) == Ret(e, NoRow, FALSE)

(***************************************************************************)
(* Strings                                                                 *)
(***************************************************************************)

\* The longest input string of the normalization specification.
MaxLen == 3

UpperChars == <<"A","B","C","D","E","F","G","H","I","J","K","L","M",
                "N","O","P","Q","R","S","T","U","V","W","X","Y","Z">>
LowerChars == <<"a","b","c","d","e","f","g","h","i","j","k","l","m",
                "n","o","p","q","r","s","t","u","v","w","x","y","z">>

\* str.lower() on one ASCII character.
LowerChar(c) ==
    IF \E i \in DOMAIN UpperChars : UpperChars[i] = c
    THEN LowerChars[CHOOSE i \in DOMAIN UpperChars : UpperChars[i] = c]
    ELSE c

\* str.lower()
LowerStr(s) == [i \in 1..Len(s) |-> LowerChar(s[i])]

\* str.replace(old, new) for a one-character old; new is a string.
RECURSIVE Replace(_, _, _)
Replace(s, old, new) ==
    IF s = <<>> THEN <<>>
    ELSE (IF Head(s) = old THEN new ELSE <<Head(s)>>) \o Replace(Tail(s), old, new)

\* A variant of _normalize_name that turns a period into a space after the
\* separators were replaced.
NormalizePeriodToSpace(name) ==
    IF name = <<>> THEN <<>>
    ELSE Replace(Replace(Replace(LowerStr(name), " ", <<"_">>), "-", <<"_">>), ".", <<" ">>)

\* A variant of _normalize_name that collapses nothing but forgets hyphens.
NormalizeNoHyphen(name) ==
    IF name = <<>> THEN <<>>
    ELSE Replace(Replace(LowerStr(name), " ", <<"_">>), ".", <<>>)

\* TeamService._normalize_name
Normalize(name) ==
    IF name = <<>> THEN <<>>
    ELSE Replace(Replace(Replace(LowerStr(name), " ", <<"_">>), "-", <<"_">>), ".", <<>>)

\* The value TeamService.get_by_name binds to its query parameter.
GetByNameKey(name, normalized) ==
    IF normalized THEN Normalize(name) ELSE name

\* All strings over alphabet of length at most n.
StrUpTo(alphabet, n) == UNION {[1..k -> alphabet] : k \in 0..n}

NormAlphabet == {"A", "b", " ", "-", ".", "_"}

(***************************************************************************)
(* Normalization as a pure function: an input is drawn, normalized         *)
(* (find_matching_team / get_or_create), and the result is passed to       *)
(* get_by_name(normalized=True), which normalizes it again.                *)
(***************************************************************************)

NormInit ==
    /\ normIn \in StrUpTo(NormAlphabet, MaxLen)
    /\ normOut = NoneStr
    /\ normKey = NoneStr
    /\ normPc = "start"

\* The normalization variables while another subsystem runs.
NormIdle ==
    /\ normIn = <<>>
    /\ normOut = NoneStr
    /\ normKey = NoneStr
    /\ normPc = "start"

\* normalized_name = self._normalize_name(name)
NormalizeInput ==
    /\ normPc = "start"
    /\ normOut' = Normalize(normIn)
    /\ normPc' = "normalized"
    /\ UNCHANGED <<normIn, normKey, notNorm>>

\* self.get_by_name(normalized_name, normalized=True): the bound parameter
NormalizeAgain ==
    /\ normPc = "normalized"
    /\ normKey' = GetByNameKey(normOut, TRUE)
    /\ normPc' = "queried"
    /\ UNCHANGED <<normIn, normOut, notNorm>>

NormNext == NormalizeInput \/ NormalizeAgain

(***************************************************************************)
(* The team resolver.  A teams row is [id, name, normalized_name]; a       *)
(* team_aliases row is [id, team_id, alias, source].  The other columns    *)
(* (birth_year, gender, age_group, timestamps) take no part in resolution. *)
(* Each action is one whole call, run without interleaving.                *)
(***************************************************************************)

\* How many teams and alias rows the tables may hold.
MaxTeams == 2
MaxAliases == 2

NameLakeCity == <<"A", " ", "b">>
NameHyphen   == <<"A", "-", "b">>
NameNormal   == <<"a", "_", "b">>
NamePeriod   == <<".">>

\* The names and alias strings callers pass in.
NamePool == {NameLakeCity, NameHyphen, NameNormal, NamePeriod}

\* The alias strings callers register: one that is also a team name's
\* spelling, one that no normalized name equals.
AliasPool == {NameLakeCity, NameHyphen}

\* The provenance values of an alias.
SourcePool == {NoneVal, "scraper"}

\* Team.set_normalized_name with the canonical transform in place of its own.
SetNormalizedNameCanonical(v, name) ==
    IF (v = NoneStr \/ v = <<>>) /\ name # <<>>
    THEN Normalize(name)
    ELSE v

\* Team.set_normalized_name: v is the supplied normalized_name (None when
\* the caller gave none), name the already validated name.
SetNormalizedName(v, name) ==
    IF (v = NoneStr \/ v = <<>>) /\ name # <<>>
    THEN Replace(LowerStr(name), " ", <<"_">>)
    ELSE v

\* Team(name=..., normalized_name=...): the validated model; not ok (a
\* ValidationError) when normalized_name ends up None, which is no string.
TeamModel(name, v) ==
    LET nn == SetNormalizedName(v, name) IN
    [ok |-> nn # NoneStr, name |-> name, normalized_name |-> nn]

\* The rows "SELECT * FROM teams WHERE name = $1" / "... WHERE
\* normalized_name = $1" returns, by TeamService.get_by_name.
GetByNameRows(name, normalized) ==
    IF normalized
    THEN {t \in teams : t.normalized_name = GetByNameKey(name, TRUE)}
    ELSE {t \in teams : t.name = GetByNameKey(name, FALSE)}

\* The rows of TeamService.find_by_alias: teams joined to an alias row whose
\* alias is the input, unchanged.
FindByAliasRows(alias) ==
    {t \in teams : \E a \in team_aliases : a.team_id = t.id /\ a.alias = alias}

\* find_by_alias queried with the normalized input.
FindByAliasRowsNormalized(alias) ==
    {t \in teams : \E a \in team_aliases : a.team_id = t.id /\ a.alias = Normalize(alias)}

\* Team(**results[0]) of a query without ORDER BY: any of its rows, None if
\* there is none.
FirstOf(rows) ==
    IF rows = {} THEN {RetNone} ELSE {Ret("team", t, FALSE) : t \in rows}

\* find_matching_team that tries the alias before the normalized name.
FindMatchingResultsAliasFirst(team_name) ==
    IF GetByNameRows(team_name, FALSE) # {}
    THEN FirstOf(GetByNameRows(team_name, FALSE))
    ELSE IF FindByAliasRows(team_name) # {}
         THEN FirstOf(FindByAliasRows(team_name))
         ELSE FirstOf(GetByNameRows(Normalize(team_name), TRUE))

\* TeamService.find_matching_team: the values it may return.
FindMatchingResults(team_name) ==
    IF GetByNameRows(team_name, FALSE) # {}
    THEN FirstOf(GetByNameRows(team_name, FALSE))
    ELSE IF GetByNameRows(Normalize(team_name), TRUE) # {}
         THEN FirstOf(GetByNameRows(Normalize(team_name), TRUE))
         ELSE FirstOf(FindByAliasRows(team_name))

\* TeamAliasService.get_by_alias: the rows of its query.
GetByAliasRows(alias) == {a \in team_aliases : a.alias = alias}

\* BaseService.get_by_id on teams.
TeamById(team_id) == {t \in teams : t.id = team_id}

TeamInit ==
    /\ teams = {}
    /\ teamSeq = 0
    /\ team_aliases = {}
    /\ aliasSeq = 0
    /\ teamCall = [op |-> "none", id |-> 0, name |-> <<>>, source |-> NoneVal]
    /\ teamRet = RetNone

\* The team variables while another subsystem runs.
TeamIdle == TeamInit

Call(op, id, name, source) == [op |-> op, id |-> id, name |-> name, source |-> source]

\* TeamService.create(Team(name=name)): the generic create of a team built
\* from its name alone.  teams.name is unique in the store.
CreateTeam(name) ==
    /\ teamCall' = Call("create", 0, name, NoneVal)
    /\ LET m == TeamModel(name, NoneStr) IN
       IF ~m.ok
       THEN /\ teamRet' = RetError("ValidationError")
            /\ UNCHANGED <<teams, teamSeq>>
       ELSE IF \E t \in teams : t.name = name
       THEN /\ teamRet' = RetError("StorageError")
            /\ UNCHANGED <<teams, teamSeq>>
       ELSE /\ Cardinality(teams) < MaxTeams
            /\ LET row == [id |-> teamSeq + 1, name |-> m.name,
                           normalized_name |-> m.normalized_name] IN
               /\ teams' = teams \cup {row}
               /\ teamSeq' = teamSeq + 1
               /\ teamRet' = Ret("team", row, FALSE)
    /\ UNCHANGED <<team_aliases, aliasSeq, notTeam>>

\* TeamService.get_or_create(name)
GetOrCreate(name) ==
    /\ teamCall' = Call("get_or_create", 0, name, NoneVal)
    /\ LET normalized_name == Normalize(name)
           found == GetByNameRows(normalized_name, TRUE) IN
       IF found # {}
       THEN /\ \E t \in found : teamRet' = Ret("team", t, FALSE)
            /\ UNCHANGED <<teams, teamSeq>>
       ELSE LET m == TeamModel(name, normalized_name) IN
            IF ~m.ok
            THEN /\ teamRet' = RetError("ValidationError")
                 /\ UNCHANGED <<teams, teamSeq>>
            ELSE IF \E t \in teams : t.name = name
            THEN /\ teamRet' = RetError("StorageError")
                 /\ UNCHANGED <<teams, teamSeq>>
            ELSE /\ Cardinality(teams) < MaxTeams
                 /\ LET row == [id |-> teamSeq + 1, name |-> m.name,
                                normalized_name |-> m.normalized_name] IN
                    /\ teams' = teams \cup {row}
                    /\ teamSeq' = teamSeq + 1
                    /\ teamRet' = Ret("team", row, TRUE)
    /\ UNCHANGED <<team_aliases, aliasSeq, notTeam>>

\* add_alias without the look-up of an existing alias.
AddAliasEffectNoCheck(team_id, alias, source, ret, aliases, seq) ==
    IF TeamById(team_id) = {}
    THEN ret = RetNone /\ aliases = team_aliases /\ seq = aliasSeq
    ELSE /\ Cardinality(team_aliases) < MaxAliases
         /\ LET row == [id |-> aliasSeq + 1, team_id |-> team_id,
                        alias |-> alias, source |-> source] IN
            /\ ret = Ret("alias", row, FALSE)
            /\ aliases = team_aliases \cup {row}
            /\ seq = aliasSeq + 1

\* TeamService.add_alias(team_id, alias, source): ret is the value returned,
\* aliases and seq the table and its sequence afterwards.
AddAliasEffect(team_id, alias, source, ret, aliases, seq) ==
    IF TeamById(team_id) = {}
    THEN ret = RetNone /\ aliases = team_aliases /\ seq = aliasSeq
    ELSE IF GetByAliasRows(alias) # {}
    THEN /\ ret \in {Ret("alias", a, FALSE) : a \in GetByAliasRows(alias)}
         /\ aliases = team_aliases
         /\ seq = aliasSeq
    ELSE /\ Cardinality(team_aliases) < MaxAliases
         /\ LET row == [id |-> aliasSeq + 1, team_id |-> team_id,
                        alias |-> alias, source |-> source] IN
            /\ ret = Ret("alias", row, FALSE)
            /\ aliases = team_aliases \cup {row}
            /\ seq = aliasSeq + 1

AddAlias(team_id, alias, source) ==
    /\ teamCall' = Call("add_alias", team_id, alias, source)
    /\ AddAliasEffect(team_id, alias, source, teamRet', team_aliases', aliasSeq')
    /\ UNCHANGED <<teams, teamSeq, notTeam>>

\* TeamService.find_matching_team(team_name)
FindMatchingTeam(team_name) ==
    /\ teamCall' = Call("find_matching_team", 0, team_name, NoneVal)
    /\ \E r \in FindMatchingResults(team_name) : teamRet' = r
    /\ UNCHANGED <<teams, teamSeq, team_aliases, aliasSeq, notTeam>>

TeamNext ==
    \/ \E name \in NamePool : CreateTeam(name)
    \/ \E name \in NamePool : GetOrCreate(name)
    \/ \E team_id \in 1..MaxTeams, alias \in AliasPool, source \in SourcePool :
          AddAlias(team_id, alias, source)
    \/ \E team_name \in NamePool : FindMatchingTeam(team_name)

(***************************************************************************)
(* The content cache.  A gpt_cache row is [id, content_hash, email,        *)
(* result_json, created_at, updated_at]; result_json holds the result as   *)
(* encoded text.  Each action is one whole call, run without interleaving. *)
(***************************************************************************)

\* The latest clock value, and the oldest age delete_old_entries is asked for.
MaxTime == 2
MaxDays == 1

\* How many ids the gpt_cache sequence hands out.
MaxCacheIds == 3

\* Cached contents: the digest is case- and whitespace-sensitive.
ContentPool == {<<"a">>, <<"A">>}
ResultPool == {"r1", "r2"}
EmailPool == {NoneVal, "x@y"}

\* GPTCacheService.generate_hash: the MD5 hex digest of the exact text, as
\* a symbolic digest (distinct texts have distinct digests).
GenerateHash(content) == <<"md5">> \o content

\* json.dumps / json.loads of a result
Dumps(result) == <<"json", result>>
Loads(text) == text[2]

\* GPTCache.validate_result_json: a str is decoded, a dict is kept.
ValidateResultJson(v) == IF v \in Seq(ResultPool \cup {"json"}) THEN Loads(v) ELSE v

\* GPTCache(**row): the entity read from a stored row.
CacheEntity(row) ==
    [id |-> row.id, content_hash |-> row.content_hash, email |-> row.email,
     result_json |-> ValidateResultJson(row.result_json),
     created_at |-> row.created_at, updated_at |-> row.updated_at]

CacheRet(kind, row, count) == [kind |-> kind, row |-> row, count |-> count]

\* GPTCacheService.get_by_content_hash: the rows of its query.
GetByContentHashRows(content_hash) ==
    {e \in gpt_cache : e.content_hash = content_hash}

CacheInit ==
    /\ gpt_cache = {}
    /\ cacheSeq = 0
    /\ now = 0
    /\ cacheCall = [op |-> "none", content |-> <<>>, result |-> "r1",
                    email |-> NoneVal, existing |-> NoRow]
    /\ cacheRet = CacheRet("none", NoRow, 0)

CacheIdle == CacheInit

\* datetime.utcnow() moves on.
Tick ==
    /\ now < MaxTime
    /\ now' = now + 1
    /\ UNCHANGED <<gpt_cache, cacheSeq, cacheCall, cacheRet, notCache>>

\* The UPDATE of create_or_update that leaves result_json as it was.
UpdateExistingKeepResult(content_hash, result, email) ==
    {IF e.content_hash = content_hash
     THEN [e EXCEPT !.email = email, !.updated_at = now]
     ELSE e : e \in gpt_cache}

\* The UPDATE of create_or_update that keeps the stored email tag when the
\* call gives none.
UpdateExistingKeepEmail(content_hash, result, email) ==
    {IF e.content_hash = content_hash
     THEN [e EXCEPT !.result_json = Dumps(result),
                    !.email = IF email = NoneVal THEN @ ELSE email,
                    !.updated_at = now]
     ELSE e : e \in gpt_cache}

\* The UPDATE of create_or_update: "SET result_json = $2, email = $3,
\* updated_at = $4 WHERE content_hash = $1".
UpdateExisting(content_hash, result, email) ==
    {IF e.content_hash = content_hash
     THEN [e EXCEPT !.result_json = Dumps(result), !.email = email,
                    !.updated_at = now]
     ELSE e : e \in gpt_cache}

\* The row BaseService.create inserts for GPTCache(content_hash, email,
\* result_json): id from the sequence, both timestamps from the model's
\* default_factory, email NULL when None was dropped from the INSERT.
NewCacheRow(content_hash, result, email) ==
    [id |-> cacheSeq + 1, content_hash |-> content_hash, email |-> email,
     result_json |-> Dumps(result), created_at |-> now, updated_at |-> now]

\* GPTCacheService.create_or_update(content, result, email)
CreateOrUpdate(content, result, email) ==
    LET content_hash == GenerateHash(content)
        found == GetByContentHashRows(content_hash) IN
    IF found # {}
    THEN \E existing \in found :
           /\ cacheCall' = [op |-> "create_or_update", content |-> content,
                            result |-> result, email |-> email,
                            existing |-> existing]
           /\ gpt_cache' = UpdateExisting(content_hash, result, email)
           /\ \E row \in gpt_cache' :
                 /\ row.content_hash = content_hash
                 /\ cacheRet' = CacheRet("entry", CacheEntity(row), 0)
           /\ UNCHANGED <<cacheSeq, now, notCache>>
    ELSE /\ cacheSeq < MaxCacheIds
         /\ cacheCall' = [op |-> "create_or_update", content |-> content,
                          result |-> result, email |-> email,
                          existing |-> NoRow]
         /\ gpt_cache' = gpt_cache \cup {NewCacheRow(content_hash, result, email)}
         /\ cacheSeq' = cacheSeq + 1
         /\ cacheRet' = CacheRet("entry",
                           CacheEntity(NewCacheRow(content_hash, result, email)), 0)
         /\ UNCHANGED <<now, notCache>>

\* delete_old_entries that measures an entry's age from its creation.
DeleteOldEntriesByCreation(days) ==
    LET cutoff_date == now - days
        old == {e \in gpt_cache : e.created_at < cutoff_date} IN
    /\ cacheCall' = [op |-> "delete_old_entries", content |-> <<>>,
                     result |-> "r1", email |-> NoneVal, existing |-> NoRow]
    /\ gpt_cache' = gpt_cache \ old
    /\ cacheRet' = CacheRet("count", NoRow, Cardinality(old))
    /\ UNCHANGED <<cacheSeq, now, notCache>>

\* GPTCacheService.delete_old_entries(days)
DeleteOldEntries(days) ==
    LET cutoff_date == now - days
        old == {e \in gpt_cache : e.updated_at < cutoff_date} IN
    /\ cacheCall' = [op |-> "delete_old_entries", content |-> <<>>,
                     result |-> "r1", email |-> NoneVal, existing |-> NoRow]
    /\ gpt_cache' = gpt_cache \ old
    /\ cacheRet' = CacheRet("count", NoRow, Cardinality(old))
    /\ UNCHANGED <<cacheSeq, now, notCache>>

CacheNext ==
    \/ Tick
    \/ \E content \in ContentPool, result \in ResultPool, email \in EmailPool :
          CreateOrUpdate(content, result, email)
    \/ \E days \in 0..MaxDays : DeleteOldEntries(days)

(***************************************************************************)
(* The recruit cascade delete.  recruits holds ids; a schedules or         *)
(* extraction_feedback row is [id, recruit_id], recruit_id 0 for NULL.     *)
(* delete_cascade runs its three DELETEs inside execute_transaction: the   *)
(* statements act on the transaction's own view of the tables (txWork),    *)
(* which replaces the stored tables at commit and is dropped at rollback.  *)
(* A statement may fail (a StorageError from the store).                   *)
(***************************************************************************)

\* How many ids each sequence hands out.
MaxRecruits == 2
MaxSchedules == 2
MaxFeedback == 2

Tables(r, s, f) == [recruits |-> r, schedules |-> s, feedback |-> f]
NoTables == Tables({}, {}, {})
Stored == Tables(recruits, schedules, extraction_feedback)

\* delete_cascade without its second statement: the schedules stay.
ApplyStatementKeepsSchedules(i, t, recruit_id) ==
    CASE i = 1 -> [t EXCEPT !.feedback = {x \in t.feedback : x.recruit_id # recruit_id}]
      [] i = 2 -> t
      [] i = 3 -> [t EXCEPT !.recruits = t.recruits \ {recruit_id}]

\* The three statements of delete_cascade, in the order of its list.
StatementCount == 3
ApplyStatement(i, t, recruit_id) ==
    CASE i = 1 -> [t EXCEPT !.feedback = {x \in t.feedback : x.recruit_id # recruit_id}]
      [] i = 2 -> [t EXCEPT !.schedules = {x \in t.schedules : x.recruit_id # recruit_id}]
      [] i = 3 -> [t EXCEPT !.recruits = t.recruits \ {recruit_id}]

\* A connection without a transaction: what the statements did stays.
RollbackKeepsWork(stored, work) == work

\* "async with conn.transaction()" left by an exception: the store keeps
\* what it held, the transaction's work is dropped.
Rollback(stored, work) == stored

RecruitInit ==
    /\ recruits = {}
    /\ schedules = {}
    /\ extraction_feedback = {}
    /\ recruitSeq = 0
    /\ scheduleSeq = 0
    /\ feedbackSeq = 0
    /\ dcPc = "idle"
    /\ dcId = 0
    /\ txWork = NoTables
    /\ txStep = 0
    /\ dcRet = "none"
    /\ dcBefore = NoTables
    /\ dcFailedAt = 0

RecruitIdle == RecruitInit

\* The record of the last delete_cascade call is dropped by the next call.
ForgetCall ==
    /\ dcRet' = "none"
    /\ dcBefore' = NoTables
    /\ dcFailedAt' = 0
    /\ UNCHANGED <<dcPc, dcId, txWork, txStep>>

\* RecruitService.create(Recruit(...))
CreateRecruit ==
    /\ dcPc = "idle"
    /\ recruitSeq < MaxRecruits
    /\ recruits' = recruits \cup {recruitSeq + 1}
    /\ recruitSeq' = recruitSeq + 1
    /\ ForgetCall
    /\ UNCHANGED <<schedules, extraction_feedback, scheduleSeq, feedbackSeq, notRecruit>>

\* ScheduleService.create(Schedule(recruit_id=...)): recruit_id is optional.
CreateSchedule(recruit_id) ==
    /\ dcPc = "idle"
    /\ scheduleSeq < MaxSchedules
    /\ schedules' = schedules \cup {[id |-> scheduleSeq + 1, recruit_id |-> recruit_id]}
    /\ scheduleSeq' = scheduleSeq + 1
    /\ ForgetCall
    /\ UNCHANGED <<recruits, extraction_feedback, recruitSeq, feedbackSeq, notRecruit>>

\* ExtractionService.create_feedback(..., recruit_id, ...)
CreateFeedback(recruit_id) ==
    /\ dcPc = "idle"
    /\ feedbackSeq < MaxFeedback
    /\ extraction_feedback' =
         extraction_feedback \cup {[id |-> feedbackSeq + 1, recruit_id |-> recruit_id]}
    /\ feedbackSeq' = feedbackSeq + 1
    /\ ForgetCall
    /\ UNCHANGED <<recruits, schedules, recruitSeq, scheduleSeq, notRecruit>>

\* delete_cascade(recruit_id) up to execute_transaction: get_by_id, and
\* return False when there is no such recruit; else the transaction begins.
DeleteCascadeBegin(recruit_id) ==
    /\ dcPc = "idle"
    /\ dcId' = recruit_id
    /\ dcBefore' = Stored
    /\ dcFailedAt' = 0
    /\ IF recruit_id \notin recruits
       THEN /\ dcRet' = "false"
            /\ UNCHANGED <<dcPc, txWork, txStep>>
       ELSE /\ dcPc' = "transaction"
            /\ txWork' = Stored
            /\ txStep' = 1
            /\ dcRet' = "none"
    /\ UNCHANGED <<recruitTables, recruitSeqs, notRecruit>>

\* One "await conn.execute(query, *args)" of execute_transaction succeeds.
TransactionStatement ==
    /\ dcPc = "transaction"
    /\ txStep <= StatementCount
    /\ txWork' = ApplyStatement(txStep, txWork, dcId)
    /\ txStep' = txStep + 1
    /\ UNCHANGED <<dcPc, dcId, dcRet, dcBefore, dcFailedAt,
                   recruitTables, recruitSeqs, notRecruit>>

\* One conn.execute raises: the transaction block rolls back, the
\* exception reaches delete_cascade, which logs it and returns False.
TransactionStatementFails ==
    /\ dcPc = "transaction"
    /\ txStep <= StatementCount
    /\ LET after == Rollback(Stored, txWork) IN
       /\ recruits' = after.recruits
       /\ schedules' = after.schedules
       /\ extraction_feedback' = after.feedback
    /\ dcFailedAt' = txStep
    /\ dcPc' = "idle"
    /\ txWork' = NoTables
    /\ txStep' = 0
    /\ dcRet' = "false"
    /\ UNCHANGED <<dcId, dcBefore, recruitSeqs, notRecruit>>

\* The transaction block is left normally: commit; delete_cascade returns
\* True.
TransactionCommit ==
    /\ dcPc = "transaction"
    /\ txStep = StatementCount + 1
    /\ recruits' = txWork.recruits
    /\ schedules' = txWork.schedules
    /\ extraction_feedback' = txWork.feedback
    /\ dcPc' = "idle"
    /\ txWork' = NoTables
    /\ txStep' = 0
    /\ dcRet' = "true"
    /\ UNCHANGED <<dcId, dcBefore, dcFailedAt, recruitSeqs, notRecruit>>

RecruitNext ==
    \/ CreateRecruit
    \/ \E recruit_id \in 0..MaxRecruits : CreateSchedule(recruit_id)
    \/ \E recruit_id \in 1..MaxRecruits : CreateFeedback(recruit_id)
    \/ \E recruit_id \in 1..MaxRecruits : DeleteCascadeBegin(recruit_id)
    \/ TransactionStatement
    \/ TransactionStatementFails
    \/ TransactionCommit

(***************************************************************************)
(* Concurrent alias writers.  Callers run add_alias and                    *)
(* bulk_create_aliases (source left at its default) against the same       *)
(* tables; every awaited query is one step, and the steps of different     *)
(* callers interleave.  Two teams exist.                                   *)
(***************************************************************************)

\* How many alias rows the sequence hands out, and the longest list
\* bulk_create_aliases is given.
MaxAliasRows == 2
MaxBatch == 2

\* Two callers: a look-up of one and an insert of the other is every race
\* there is.
Writers == {1, 2}

WriterTeams == {[id |-> 1, name |-> NameLakeCity, normalized_name |-> Normalize(NameLakeCity)],
                [id |-> 2, name |-> NameNormal, normalized_name |-> Normalize(NameNormal)]}

\* team_id arguments: the two teams and an id no team has.
WriterTeamIds == {t.id : t \in WriterTeams} \cup {Cardinality(WriterTeams) + 1}

BatchPool == UNION {[1..k -> AliasPool] : k \in 1..MaxBatch}

\* A caller's locals: its arguments, the position of its loop, the list
\* created_aliases it returns, and (for the claims) the ids of the rows it
\* inserted itself.
Arg(team_id, aliases, idx, created_aliases, made) ==
    [team_id |-> team_id, aliases |-> aliases, idx |-> idx,
     created_aliases |-> created_aliases, made |-> made]
NoArg == Arg(0, <<>>, 0, <<>>, {})

WriterInit ==
    /\ aliasUnique \in BOOLEAN
    /\ apc = [w \in Writers |-> "idle"]
    /\ aArg = [w \in Writers |-> NoArg]
    /\ overlapped = FALSE

WriterIdle ==
    /\ aliasUnique = TRUE
    /\ apc = <<>>
    /\ aArg = <<>>
    /\ overlapped = FALSE

\* A step of w while another call is in progress.
Overlap(w) ==
    overlapped' = (overlapped \/ \E v \in Writers : v # w /\ apc[v] # "idle")

\* get_by_alias that never finds a row.
AliasFoundNever(alias) == FALSE

\* "existing_alias = await ...get_by_alias(alias)" followed by
\* "if existing_alias:".
AliasFound(alias) == GetByAliasRows(alias) # {}

\* The INSERT of TeamAliasService.create(TeamAlias(team_id, alias, source)):
\* refused by the store when the alias column is unique and holds the value.
InsertRefused(alias) == aliasUnique /\ \E a \in team_aliases : a.alias = alias

InsertAliasRow(team_id, alias) ==
    /\ aliasSeq < MaxAliasRows
    /\ team_aliases' = team_aliases \cup
          {[id |-> aliasSeq + 1, team_id |-> team_id, alias |-> alias, source |-> NoneVal]}
    /\ aliasSeq' = aliasSeq + 1

Finish(w) ==
    /\ apc' = [apc EXCEPT ![w] = "idle"]
    /\ aArg' = [aArg EXCEPT ![w] = NoArg]

\* add_alias: "team = await self.get_by_id(team_id)"; None is returned when
\* there is no such team.
AddAliasGetById(w, team_id, alias) ==
    /\ apc[w] = "idle"
    /\ IF TeamById(team_id) = {}
       THEN UNCHANGED <<apc, aArg>>
       ELSE /\ apc' = [apc EXCEPT ![w] = "add_get_by_alias"]
            /\ aArg' = [aArg EXCEPT ![w] = Arg(team_id, <<alias>>, 1, <<>>, {})]
    /\ Overlap(w)
    /\ UNCHANGED <<aliasUnique, team_aliases, aliasSeq, notWriter>>

\* add_alias: get_by_alias; the existing row is returned if there is one.
AddAliasGetByAlias(w) ==
    /\ apc[w] = "add_get_by_alias"
    /\ IF AliasFound(aArg[w].aliases[1])
       THEN Finish(w)
       ELSE /\ apc' = [apc EXCEPT ![w] = "add_create"]
            /\ UNCHANGED aArg
    /\ Overlap(w)
    /\ UNCHANGED <<aliasUnique, team_aliases, aliasSeq, notWriter>>

\* add_alias: "await self.alias_service.create(alias)"; a refused INSERT
\* raises out of add_alias.
AddAliasCreate(w) ==
    /\ apc[w] = "add_create"
    /\ IF InsertRefused(aArg[w].aliases[1])
       THEN UNCHANGED <<team_aliases, aliasSeq>>
       ELSE InsertAliasRow(aArg[w].team_id, aArg[w].aliases[1])
    /\ Finish(w)
    /\ Overlap(w)
    /\ UNCHANGED <<aliasUnique, notWriter>>

\* bulk_create_aliases is called: the loop is entered.
BulkCall(w, team_id, aliases) ==
    /\ apc[w] = "idle"
    /\ apc' = [apc EXCEPT ![w] = "bulk_get_by_alias"]
    /\ aArg' = [aArg EXCEPT ![w] = Arg(team_id, aliases, 1, <<>>, {})]
    /\ Overlap(w)
    /\ UNCHANGED <<aliasUnique, team_aliases, aliasSeq, notWriter>>

\* "created_aliases.append(...)" of the rows in appended, then the loop moves
\* to the next alias, or the call returns after the last; made is what the
\* call has inserted by now.
NextAlias(w, appended, made) ==
    IF aArg[w].idx < Len(aArg[w].aliases)
    THEN /\ apc' = [apc EXCEPT ![w] = "bulk_get_by_alias"]
         /\ aArg' = [aArg EXCEPT ![w].idx = @ + 1,
                                 ![w].created_aliases = @ \o appended,
                                 ![w].made = made]
    ELSE Finish(w)

\* bulk_create_aliases: get_by_alias for the current alias; an existing one
\* is skipped, and appended to created_aliases when it is this team's.
BulkGetByAlias(w) ==
    /\ apc[w] = "bulk_get_by_alias"
    /\ IF AliasFound(aArg[w].aliases[aArg[w].idx])
       THEN \E existing_alias \in GetByAliasRows(aArg[w].aliases[aArg[w].idx]) :
               NextAlias(w, IF existing_alias.team_id = aArg[w].team_id
                            THEN <<existing_alias>> ELSE <<>>,
                         aArg[w].made)
       ELSE /\ apc' = [apc EXCEPT ![w] = "bulk_create"]
            /\ UNCHANGED aArg
    /\ Overlap(w)
    /\ UNCHANGED <<aliasUnique, team_aliases, aliasSeq, notWriter>>

\* bulk_create_aliases: "await self.create(alias)"; an exception (a refused
\* INSERT, or no team with team_id) ends the loop and the call returns what
\* it created so far.
BulkCreate(w) ==
    /\ apc[w] = "bulk_create"
    /\ IF InsertRefused(aArg[w].aliases[aArg[w].idx]) \/ TeamById(aArg[w].team_id) = {}
       THEN /\ Finish(w)
            /\ UNCHANGED <<team_aliases, aliasSeq>>
       ELSE /\ InsertAliasRow(aArg[w].team_id, aArg[w].aliases[aArg[w].idx])
            /\ NextAlias(w, <<[id |-> aliasSeq + 1, team_id |-> aArg[w].team_id,
                               alias |-> aArg[w].aliases[aArg[w].idx],
                               source |-> NoneVal]>>,
                         aArg[w].made \cup {aliasSeq + 1})
    /\ Overlap(w)
    /\ UNCHANGED <<aliasUnique, notWriter>>

WriterNext ==
    \E w \in Writers :
        \/ \E team_id \in WriterTeamIds, alias \in AliasPool : AddAliasGetById(w, team_id, alias)
        \/ AddAliasGetByAlias(w)
        \/ AddAliasCreate(w)
        \/ \E team_id \in WriterTeamIds, aliases \in BatchPool : BulkCall(w, team_id, aliases)
        \/ BulkGetByAlias(w)
        \/ BulkCreate(w)

(***************************************************************************)
(* The generic repository (BaseService) over one table.  The entity type   *)
(* is Recruit reduced to a required field, an optional field and the two   *)
(* timestamps; its key is declared "id: Optional[int] = None" as in every  *)
(* model with an integer key.  The table's id column is a primary key fed  *)
(* by a sequence when the INSERT names no id.                              *)
(***************************************************************************)

\* How many ids the sequence hands out and callers name, and how many rows
\* the table holds.
MaxIds == 2
MaxRows == 2

\* id = None
NoneId == 0

UserIdPool == {"u1", "u2"}
FirstNamePool == {NoneVal, "Al"}

\* The declared type of the model's id field, and what
\* getattr(id_type, '__origin__', id_type) gives for it: Optional[int] is
\* Union[int, None], whose __origin__ is Union; int and str have no
\* __origin__.
IdAnnotation == "Optional[int]"
Origin(id_type) == IF id_type = "Optional[int]" THEN "Union" ELSE id_type

\* _is_id_auto_assigned with the detection the documentation describes:
\* an integer key is database-assigned.
IsIdAutoAssignedForIntegerKey == TRUE

\* "return getattr(id_type, '__origin__', id_type) is int"
IsIdAutoAssigned == Origin(IdAnnotation) = "int"

Entity(id, user_id, first_name, created_at, updated_at) ==
    [id |-> id, user_id |-> user_id, first_name |-> first_name,
     created_at |-> created_at, updated_at |-> updated_at]
NoEntity == Entity(NoneId, "", NoneVal, 0, 0)

\* Recruit(...) as a caller builds it: the timestamps come from
\* default_factory=datetime.utcnow.
EntityPool ==
    {Entity(id, u, f, now, now) : id \in {NoneId} \cup 1..MaxIds, u \in UserIdPool, f \in FirstNamePool}

CrudRet(kind, row) == [kind |-> kind, row |-> row]
CrudNone == CrudRet("none", NoEntity)
CrudCall(op, obj, id, prev) == [op |-> op, obj |-> obj, id |-> id, prev |-> prev]

\* obj.model_dump(exclude_none=True): the names of the fields that are set.
ModelDump(obj) ==
    {f \in {"id"} : obj.id # NoneId} \cup {"user_id"}
        \cup {f \in {"first_name"} : obj.first_name # NoneVal}
        \cup {"created_at", "updated_at"}

\* "if 'id' in data and (data['id'] is None or self._is_id_auto_assigned()):
\*  del data['id']"
InsertColumns(obj) ==
    LET data == ModelDump(obj) IN
    IF "id" \in data /\ (obj.id = NoneId \/ IsIdAutoAssigned)
    THEN data \ {"id"}
    ELSE data

\* The row of "INSERT INTO table (columns) VALUES (...) RETURNING *": a
\* column the statement does not name gets its default, the next value of
\* the sequence for id and NULL for first_name.
InsertedRow(obj, columns, seq) ==
    Entity(IF "id" \in columns THEN obj.id ELSE seq + 1,
           obj.user_id,
           IF "first_name" \in columns THEN obj.first_name ELSE NoneVal,
           obj.created_at,
           obj.updated_at)

\* self.model_class(**results[0]): every field is taken from the row.
ModelClass(row) ==
    Entity(row.id, row.user_id, row.first_name, row.created_at, row.updated_at)

CrudInit ==
    /\ table = {}
    /\ idSeq = 0
    /\ crudCall = CrudCall("none", NoEntity, NoneId, CrudNone)
    /\ crudRet = CrudNone

CrudIdle == CrudInit

\* create(obj).  The sequence moves on when it is asked for a value, also
\* when the INSERT then fails; an id that a row already has violates the
\* primary key, execute_query raises and so does create.
Create(obj) ==
    /\ Cardinality(table) < MaxRows
    /\ "id" \notin InsertColumns(obj) => idSeq < MaxIds
    /\ LET columns == InsertColumns(obj)
           row == InsertedRow(obj, columns, idSeq)
       IN  /\ idSeq' = IF "id" \in columns THEN idSeq ELSE idSeq + 1
           /\ IF \E r \in table : r.id = row.id
              THEN /\ crudRet' = CrudRet("StorageError", NoEntity)
                   /\ UNCHANGED table
              ELSE /\ table' = table \cup {row}
                   /\ crudRet' = CrudRet("entity", ModelClass(row))
    /\ crudCall' = CrudCall("create", obj, NoneId, CrudNone)
    /\ UNCHANGED <<now, notCrud>>

\* get_by_id(id_value); the call remembers what a create just before it
\* returned.
GetById(id_value) ==
    LET results == {r \in table : r.id = id_value} IN
    /\ crudCall' = CrudCall("get_by_id", NoEntity, id_value,
                            IF crudCall.op = "create" THEN crudRet ELSE CrudNone)
    /\ crudRet' = IF results = {}
                  THEN CrudNone
                  ELSE CrudRet("entity", ModelClass(CHOOSE r \in results : TRUE))
    /\ UNCHANGED <<table, idSeq, now, notCrud>>

\* What get_by_id(id_value) returns from the table as it is.
GetByIdResult(id_value) ==
    LET results == {r \in table : r.id = id_value} IN
    IF results = {}
    THEN CrudNone
    ELSE CrudRet("entity", ModelClass(CHOOSE r \in results : TRUE))

\* The payloads of update: a dict naming some of the fields, or a model,
\* which is dumped like in create.  data holds the names, obj the values
\* (a field the dict does not name is left at its empty value in obj).
DictPayload(data, id, first_name) ==
    [data |-> data,
     obj |-> Entity(IF "id" \in data THEN id ELSE NoneId, "",
                    IF "first_name" \in data THEN first_name ELSE NoneVal, 0, 0)]
Payloads ==
    {DictPayload(k, id, f) : k \in SUBSET {"id", "first_name"},
                             id \in 1..MaxIds, f \in FirstNamePool}
        \cup {[data |-> ModelDump(e), obj |-> e] : e \in EntityPool}

\* update that leaves 'id' in the data.
UpdateDataKeepsId(data) == data

\* "if 'id' in data: del data['id']"
UpdateData(data) == data \ {"id"}

\* The row after "UPDATE table SET k = v, ... WHERE id = $1".
UpdatedRow(row, data, obj) ==
    Entity(IF "id" \in data THEN obj.id ELSE row.id,
           IF "user_id" \in data THEN obj.user_id ELSE row.user_id,
           IF "first_name" \in data THEN obj.first_name ELSE row.first_name,
           IF "created_at" \in data THEN obj.created_at ELSE row.created_at,
           IF "updated_at" \in data THEN obj.updated_at ELSE row.updated_at)

UpdateCall(id_value, payload) ==
    [op |-> "update", obj |-> payload.obj, id |-> id_value, prev |-> CrudNone,
     data |-> payload.data]

\* update(id_value, obj): with nothing left to set it is get_by_id;
\* otherwise the UPDATE ... RETURNING * gives the row, or nothing.
Update(id_value, payload) ==
    /\ crudCall' = UpdateCall(id_value, payload)
    /\ LET data == UpdateData(payload.data)
           results == {r \in table : r.id = id_value}
           updated == {UpdatedRow(r, data, payload.obj) : r \in results}
       IN  IF data = {}
           THEN /\ crudRet' = GetByIdResult(id_value)
                /\ UNCHANGED table
           ELSE /\ table' = (table \ results) \cup updated
                /\ crudRet' = IF updated = {}
                              THEN CrudNone
                              ELSE CrudRet("entity", ModelClass(CHOOSE r \in updated : TRUE))
    /\ UNCHANGED <<idSeq, now, notCrud>>

\* delete that reports success whatever it removed.
DeletedAlways(results) == TRUE

\* "return len(results) > 0"
Deleted(results) == results # {}

\* delete(id_value): "DELETE FROM table WHERE id = $1 RETURNING id".
Delete(id_value) ==
    /\ crudCall' = CrudCall("delete", NoEntity, id_value, CrudNone)
    /\ LET results == {r \in table : r.id = id_value} IN
          /\ table' = table \ results
          /\ crudRet' = CrudRet(IF Deleted(results) THEN "true" ELSE "false", NoEntity)
    /\ UNCHANGED <<idSeq, now, notCrud>>

\* id arguments: the ids the table can hold and one it never holds.
IdArgs == 1..(MaxIds + 1)

CrudNext ==
    \/ \E obj \in EntityPool : Create(obj)
    \/ \E id_value \in 1..MaxIds : GetById(id_value)
    \/ \E id_value \in IdArgs, payload \in Payloads : Update(id_value, payload)
    \/ \E id_value \in IdArgs : Delete(id_value)
    \/ Tick

(***************************************************************************)
(* find_by and count of the generic repository, on tables large enough for *)
(* get_all's default page to matter.  The table does not change here.      *)
(***************************************************************************)

\* The most rows the table starts with.
MaxFindRows == 101

\* "async def get_all(self, limit: int = 100, offset: int = 0)"
GetAllDefaultLimit == 100
GetAllDefaultOffset == 0

\* Tables of n rows with ids 1..n: every step-th row belongs to "u1", the
\* others to "u2", and the rows with an odd id have a first name.
FindTable(n, step) ==
    {Entity(i, IF i % step = 0 THEN "u1" ELSE "u2",
            IF i % 2 = 1 THEN "Al" ELSE NoneVal, 0, 0) : i \in 1..n}
FindTables == {FindTable(n, step) : n \in 0..MaxFindRows, step \in 1..3}

\* The keyword arguments of find_by and count: names holds the fields
\* given, the record their values.
Criteria(names, user_id, first_name) ==
    [names |-> names,
     user_id |-> IF "user_id" \in names THEN user_id ELSE "",
     first_name |-> IF "first_name" \in names THEN first_name ELSE NoneVal]
CriteriaPool ==
    {Criteria(k, u, f) : k \in SUBSET {"user_id", "first_name"},
                         u \in UserIdPool, f \in FirstNamePool}

\* "column = $i" in SQL: not true when the column or the parameter is NULL.
SqlEquals(column, value) == column # NoneVal /\ value # NoneVal /\ column = value

\* The rows of "... WHERE k1 = $1 AND k2 = $2 ...".
WhereRows(criteria) ==
    {r \in table :
        /\ "user_id" \in criteria.names => SqlEquals(r.user_id, criteria.user_id)
        /\ "first_name" \in criteria.names => SqlEquals(r.first_name, criteria.first_name)}

\* The rows of "SELECT * FROM table ORDER BY id LIMIT $1 OFFSET $2".
GetAllRows(limit, offset) ==
    {r \in table :
        LET before == Cardinality({q \in table : q.id < r.id})
        IN  before >= offset /\ before < offset + limit}

\* find_by: "if not kwargs: return await self.get_all()", else the WHERE
\* query.
FindByRows(criteria) ==
    IF criteria.names = {}
    THEN GetAllRows(GetAllDefaultLimit, GetAllDefaultOffset)
    ELSE WhereRows(criteria)

\* count: COUNT(*) of the table without kwargs, else of the WHERE query.
CountRows(criteria) ==
    IF criteria.names = {}
    THEN Cardinality(table)
    ELSE Cardinality(WhereRows(criteria))

FindCall(op, criteria, prev) ==
    [op |-> op, obj |-> NoEntity, id |-> NoneId, prev |-> prev, criteria |-> criteria]
ListRet(found) == [kind |-> "list", row |-> NoEntity, found |-> found]
CountRet(n) == [kind |-> "count", row |-> NoEntity, count |-> n]

FindInit ==
    /\ table \in FindTables
    /\ idSeq = Cardinality(table)
    /\ crudCall = CrudCall("none", NoEntity, NoneId, CrudNone)
    /\ crudRet = CrudNone

FindBy(criteria) ==
    /\ crudCall' = FindCall("find_by", criteria, CrudNone)
    /\ crudRet' = ListRet({ModelClass(r) : r \in FindByRows(criteria)})
    /\ UNCHANGED <<table, idSeq, now, notCrud>>

\* count(**kwargs); the call remembers what a find_by with the same
\* arguments just before it returned.
Count(criteria) ==
    /\ crudCall' = FindCall("count", criteria,
                            IF crudCall.op = "find_by" /\ crudCall.criteria = criteria
                            THEN crudRet ELSE CrudNone)
    /\ crudRet' = CountRet(CountRows(criteria))
    /\ UNCHANGED <<table, idSeq, now, notCrud>>

FindNext ==
    \/ \E criteria \in CriteriaPool : FindBy(criteria)
    \/ \E criteria \in CriteriaPool : Count(criteria)

(***************************************************************************)
(* UserService.create_with_settings: the user is created, then the         *)
(* settings, each by its own BaseService.create.  The call is the only     *)
(* writer of the two tables; cwUser is the id of the user it inserted.     *)
(***************************************************************************)

\* How many users the table holds.
MaxUsers == 2

\* User(id=..., email=...): the id is the caller's uuid string.
UserPool == {[id |-> i, email |-> e] : i \in {"id1", "id2", "id3"}, e \in {"a@x", "b@x"}}

\* UserSettings(...), or None for no settings.
SettingsPool == {NoneVal, "manual", "daily"}

UserInit ==
    /\ users = {}
    /\ user_settings = {}
    /\ cwPc = "idle"
    /\ cwUser = ""
    /\ cwSettings = NoneVal
    /\ cwRet = "none"
    /\ cwFailed = FALSE

UserIdle == UserInit

\* "created_user = await self.create(user)": users.id is the primary key,
\* so a user whose id is stored makes create raise.  Without settings the
\* call returns (created_user, None).
CreateWithSettingsUser(user, settings) ==
    /\ cwPc = "idle"
    /\ Cardinality(users) < MaxUsers
    /\ cwSettings' = settings
    /\ cwFailed' = FALSE
    /\ IF \E u \in users : u.id = user.id
       THEN /\ cwRet' = "StorageError"
            /\ cwUser' = ""
            /\ UNCHANGED <<users, cwPc>>
       ELSE /\ users' = users \cup {user}
            /\ cwUser' = user.id
            /\ IF settings = NoneVal
               THEN cwRet' = "user" /\ UNCHANGED cwPc
               ELSE cwRet' = "none" /\ cwPc' = "create_settings"
    /\ UNCHANGED <<user_settings, notUser>>

\* "settings.user_id = created_user.id" and
\* "created_settings = await self.settings_service.create(settings)"
\* succeed: the call returns (created_user, created_settings).
CreateWithSettingsSettings ==
    /\ cwPc = "create_settings"
    /\ \A s \in user_settings : s.user_id # cwUser
    /\ user_settings' = user_settings \cup {[user_id |-> cwUser, fetch_frequency |-> cwSettings]}
    /\ cwRet' = "user_and_settings"
    /\ cwPc' = "idle"
    /\ UNCHANGED <<users, cwUser, cwSettings, cwFailed, notUser>>

\* The INSERT of the settings fails: execute_query raises and the error
\* leaves create_with_settings; nothing undoes the INSERT of the user.
CreateWithSettingsSettingsFails ==
    /\ cwPc = "create_settings"
    /\ cwRet' = "StorageError"
    /\ cwFailed' = TRUE
    /\ cwPc' = "idle"
    /\ UNCHANGED <<users, user_settings, cwUser, cwSettings, notUser>>

UserNext ==
    \/ \E user \in UserPool, settings \in SettingsPool : CreateWithSettingsUser(user, settings)
    \/ CreateWithSettingsSettings
    \/ CreateWithSettingsSettingsFails

(***************************************************************************)
(* EmailQueueService: add_to_queue, update_status, get_queue_by_status on  *)
(* the email_queue table.  Of a row's fields the model keeps the key, the  *)
(* status, the priority, the error message and the three timestamps.       *)
(***************************************************************************)

\* How many items the queue holds, the highest priority, and the largest
\* limit asked for.
MaxQueue == 2
MaxPriority == 1
MaxLimit == 2

\* processed_at = None
NoneTime == -1

StatusPool == {"QUEUED", "PROCESSING", "COMPLETED", "FAILED"}
ErrorPool == {NoneVal, "boom"}

QueueRow(id, status, priority, created_at, updated_at, processed_at, error_message) ==
    [id |-> id, status |-> status, priority |-> priority,
     created_at |-> created_at, updated_at |-> updated_at,
     processed_at |-> processed_at, error_message |-> error_message]

QueueCall(op, id, status, arg, error_message) ==
    [op |-> op, id |-> id, status |-> status, arg |-> arg, error_message |-> error_message]
QueueRet(kind, items) == [kind |-> kind, items |-> items]

QueueInit ==
    /\ email_queue = {}
    /\ queueSeq = 0
    /\ qCall = QueueCall("none", 0, "", 0, NoneVal)
    /\ qRet = QueueRet("none", <<>>)

QueueIdle == QueueInit

\* add_to_queue: EmailQueue(..., status=QUEUED, priority=priority) through
\* BaseService.create; processed_at and error_message are None and are
\* left to the columns' NULL.
AddToQueue(priority) ==
    /\ queueSeq < MaxQueue
    /\ LET row == QueueRow(queueSeq + 1, "QUEUED", priority, now, now, NoneTime, NoneVal) IN
          /\ email_queue' = email_queue \cup {row}
          /\ qRet' = QueueRet("entity", <<row>>)
    /\ queueSeq' = queueSeq + 1
    /\ qCall' = QueueCall("add_to_queue", 0, "QUEUED", priority, NoneVal)
    /\ UNCHANGED <<now, notQueue>>

\* update_status that stamps the completed items only.
ProcessedAtCompletedOnly(status) ==
    IF status = "COMPLETED" THEN now ELSE NoneTime

\* "processed_at = None; if status in [COMPLETED, FAILED]: processed_at =
\*  datetime.utcnow()"
ProcessedAt(status) ==
    IF status \in {"COMPLETED", "FAILED"} THEN now ELSE NoneTime

\* update_status that leaves a completed or failed item as it is.
StatusUpdateRowsUnfinished(queue_id) ==
    {r \in email_queue : r.id = queue_id /\ r.status \notin {"COMPLETED", "FAILED"}}

\* The rows of "UPDATE email_queue SET ... WHERE id = $1".
StatusUpdateRows(queue_id) == {r \in email_queue : r.id = queue_id}

\* The record of an update_status call: its arguments and (for the claims)
\* the status the item had before, "" when there was no item.
StatusCall(queue_id, status, error_message, prior) ==
    [op |-> "update_status", id |-> queue_id, status |-> status, arg |-> 0,
     error_message |-> error_message, prior |-> prior]

\* update_status: the UPDATE sets status, processed_at, error_message and
\* updated_at of the row with the id; None is returned when there is none.
UpdateStatus(queue_id, status, error_message) ==
    /\ LET results == StatusUpdateRows(queue_id)
           updated == {QueueRow(r.id, status, r.priority, r.created_at, now,
                                ProcessedAt(status), error_message) : r \in results}
       IN  /\ email_queue' = (email_queue \ results) \cup updated
           /\ qRet' = IF updated = {}
                      THEN QueueRet("none", <<>>)
                      ELSE QueueRet("entity", <<CHOOSE r \in updated : TRUE>>)
    /\ qCall' = StatusCall(queue_id, status, error_message,
                           IF \E r \in email_queue : r.id = queue_id
                           THEN (CHOOSE r \in email_queue : r.id = queue_id).status
                           ELSE "")
    /\ UNCHANGED <<queueSeq, now, notQueue>>

\* "ORDER BY priority ASC, created_at ASC"
OrderedBeforeAscending(a, b) ==
    \/ a.priority < b.priority
    \/ a.priority = b.priority /\ a.created_at <= b.created_at

\* "ORDER BY priority DESC, created_at ASC": a may come before b.
OrderedBefore(a, b) ==
    \/ a.priority > b.priority
    \/ a.priority = b.priority /\ a.created_at <= b.created_at

\* The orders in which the store may return the rows of
\* "SELECT ... WHERE status = $1 ORDER BY priority DESC, created_at ASC".
OrderedSelections(status) ==
    LET matching == {r \in email_queue : r.status = status}
        n == Cardinality(matching)
    IN  {s \in [1..n -> matching] :
            /\ \A i, j \in 1..n : i # j => s[i] # s[j]
            /\ \A i, j \in 1..n : i < j => OrderedBefore(s[i], s[j])}

\* "LIMIT $2"
Limit(s, limit) == SubSeq(s, 1, IF limit < Len(s) THEN limit ELSE Len(s))

\* get_queue_by_status(status, limit); rows that tie in priority and
\* created_at come in the order the store picks.
GetQueueByStatus(status, limit) ==
    /\ \E s \in OrderedSelections(status) :
          qRet' = QueueRet("list", Limit(s, limit))
    /\ qCall' = QueueCall("get_queue_by_status", 0, status, limit, NoneVal)
    /\ UNCHANGED <<email_queue, queueSeq, now, notQueue>>

QueueNext ==
    \/ \E priority \in 0..MaxPriority : AddToQueue(priority)
    \/ \E queue_id \in 1..MaxQueue, status \in StatusPool, error_message \in ErrorPool :
          UpdateStatus(queue_id, status, error_message)
    \/ \E status \in StatusPool, limit \in 0..MaxLimit : GetQueueByStatus(status, limit)
    \/ Tick

(***************************************************************************)
(* ScraperService.create_log_entry and update_log_entry on the             *)
(* scraping_logs table.  A datetime is a number of ticks, TicksPerSecond   *)
(* of them to the second, so that a difference of two datetimes need not   *)
(* be a whole number of seconds.  Of a row's fields the model keeps the    *)
(* key, the two times, the duration, the match counts, the results and the *)
(* error; duration_seconds is <<>> for NULL and <<n>> for n.  Each action  *)
(* is one whole call, run without interleaving.                            *)
(***************************************************************************)

\* How many logs the table holds, the latest datetime, and the resolution
\* of a datetime.
MaxLogs == 1
MaxStamp == 3
TicksPerSecond == 2

\* What a run reports: one that failed before it matched anything, one
\* that found matches, and one that found matches and then failed.
Outcome(total_matches, new_matches, results, error) ==
    [total_matches |-> total_matches, new_matches |-> new_matches,
     results |-> results, error |-> error]
OutcomePool == {Outcome(0, 0, NoneVal, "boom"), Outcome(5, 2, "res", NoneVal),
                Outcome(5, 0, "res", "boom")}

\* int() that rounds down instead of toward zero.
FloorSeconds(ticks) == ticks \div TicksPerSecond

\* "int((end_time - start_time).total_seconds())": int() of a float drops
\* the fraction, toward zero.
TruncateSeconds(ticks) ==
    IF ticks >= 0
    THEN ticks \div TicksPerSecond
    ELSE -((-ticks) \div TicksPerSecond)

LogRow(id, start_time, end_time, duration_seconds, total_matches, new_matches, results, error) ==
    [id |-> id, start_time |-> start_time, end_time |-> end_time,
     duration_seconds |-> duration_seconds, total_matches |-> total_matches,
     new_matches |-> new_matches, results |-> results, error |-> error]
NoLog == LogRow(0, 0, NoneTime, <<>>, 0, 0, NoneVal, NoneVal)

LogCall(op, id) == [op |-> op, id |-> id]
LogRet(kind, row) == [kind |-> kind, row |-> row]

LogInit ==
    /\ scraping_logs = {}
    /\ logSeq = 0
    /\ logCall = LogCall("none", 0)
    /\ logRet = LogRet("none", NoLog)

LogIdle == LogInit

\* create_log_entry: the duration is computed when end_time is given;
\* "results or {}" stores an empty dict for None; the row is inserted by
\* BaseService.create, which leaves the None fields to the columns' NULL.
CreateLogEntry(start_time, end_time, total_matches, new_matches, results, error) ==
    /\ logSeq < MaxLogs
    /\ LET duration_seconds == IF end_time # NoneTime
                               THEN <<TruncateSeconds(end_time - start_time)>>
                               ELSE <<>>
           row == LogRow(logSeq + 1, start_time, end_time, duration_seconds,
                         total_matches, new_matches,
                         IF results = NoneVal THEN "{}" ELSE results, error)
       IN  /\ scraping_logs' = scraping_logs \cup {row}
           /\ logRet' = LogRet("entity", row)
    /\ logSeq' = logSeq + 1
    /\ logCall' = LogCall("create_log_entry", 0)
    /\ UNCHANGED notLog

\* update_log_entry: get_by_id, None when there is no such log; else the
\* duration against the start_time read, and the UPDATE of end_time,
\* duration_seconds, the match counts, results and error.
UpdateLogEntry(log_id, end_time, total_matches, new_matches, results, error) ==
    /\ LET found == {r \in scraping_logs : r.id = log_id}
           updated == {LogRow(log.id, log.start_time, end_time,
                              <<TruncateSeconds(end_time - log.start_time)>>,
                              total_matches, new_matches, results, error) : log \in found}
       IN  /\ scraping_logs' = (scraping_logs \ found) \cup updated
           /\ logRet' = IF updated = {}
                        THEN LogRet("none", NoLog)
                        ELSE LogRet("entity", CHOOSE r \in updated : TRUE)
    /\ logCall' = LogCall("update_log_entry", log_id)
    /\ UNCHANGED <<logSeq, notLog>>

LogNext ==
    \/ \E start_time \in 0..MaxStamp, end_time \in {NoneTime} \cup 0..MaxStamp,
          o \in OutcomePool :
          CreateLogEntry(start_time, end_time, o.total_matches, o.new_matches,
                         o.results, o.error)
    \/ \E log_id \in 1..(MaxLogs + 1), end_time \in 0..MaxStamp, o \in OutcomePool :
          UpdateLogEntry(log_id, end_time, o.total_matches, o.new_matches,
                         o.results, o.error)

(***************************************************************************)
(* The connection provider (db/db_utils.py).  Callers are asyncio tasks;   *)
(* each runs execute_query and execute_transaction calls one after the     *)
(* other, and the awaited steps of different tasks interleave.  pool_var   *)
(* is a ContextVar: every task has its own copy of the context it was      *)
(* started in, so it sees a pool that was stored before it started, and    *)
(* what it stores itself no other task sees.  A pool hands out at most     *)
(* max_size connections; acquire waits while all are out.                  *)
(***************************************************************************)

\* max_size of a pool (20 in get_pool, scaled down), and the longest list
\* of queries execute_transaction is given.
MaxSize == 2
MaxQueries == 2

\* One task more than a pool has connections.
Tasks == 1..(MaxSize + 1)

\* pool_var's default: no pool.
NonePool == 0

\* A task's call in progress: execute_query or execute_transaction, the
\* number of queries of the transaction and how many of them have run.
PoolCall(kind, queries, done) == [kind |-> kind, queries |-> queries, done |-> done]
NoPoolCall == PoolCall("none", 0, 0)

\* The connections of pool that are out.
Held(pool) == Cardinality({t \in Tasks : acquired[t] = pool})

\* The tasks start either after a pool was stored in the context they copy,
\* or in a context that holds none.
PoolInit ==
    /\ \/ pool_var = [t \in Tasks |-> 1] /\ poolSeq = 1
       \/ pool_var = [t \in Tasks |-> NonePool] /\ poolSeq = 0
    /\ acquired = [t \in Tasks |-> NonePool]
    /\ ppc = [t \in Tasks |-> "idle"]
    /\ pArg = [t \in Tasks |-> NoPoolCall]

PoolIdle ==
    /\ pool_var = <<>>
    /\ poolSeq = 0
    /\ acquired = <<>>
    /\ ppc = <<>>
    /\ pArg = <<>>

\* execute_query(query, *args) is called.
ExecuteQuery(t) ==
    /\ ppc[t] = "idle"
    /\ ppc' = [ppc EXCEPT ![t] = "get_pool"]
    /\ pArg' = [pArg EXCEPT ![t] = PoolCall("query", 1, 0)]
    /\ UNCHANGED <<pool_var, poolSeq, acquired, notPool>>

\* execute_transaction(queries) is called.
ExecuteTransaction(t, queries) ==
    /\ ppc[t] = "idle"
    /\ ppc' = [ppc EXCEPT ![t] = "get_pool"]
    /\ pArg' = [pArg EXCEPT ![t] = PoolCall("transaction", queries, 0)]
    /\ UNCHANGED <<pool_var, poolSeq, acquired, notPool>>

\* get_pool: "pool = pool_var.get()"; with no pool, "await
\* asyncpg.create_pool(...)" is awaited.
GetPool(t) ==
    /\ ppc[t] = "get_pool"
    /\ ppc' = [ppc EXCEPT ![t] = IF pool_var[t] = NonePool THEN "create_pool" ELSE "acquire"]
    /\ UNCHANGED <<pool_var, poolSeq, acquired, pArg, notPool>>

\* get_pool: create_pool returns a new pool and "pool_var.set(pool)" stores
\* it in the task's context.
CreatePool(t) ==
    /\ ppc[t] = "create_pool"
    /\ poolSeq' = poolSeq + 1
    /\ pool_var' = [pool_var EXCEPT ![t] = poolSeq + 1]
    /\ ppc' = [ppc EXCEPT ![t] = "acquire"]
    /\ UNCHANGED <<acquired, pArg, notPool>>

\* "async with pool.acquire() as conn": a connection of the pool is taken
\* once one is free.
Acquire(t) ==
    /\ ppc[t] = "acquire"
    /\ Held(pool_var[t]) < MaxSize
    /\ acquired' = [acquired EXCEPT ![t] = pool_var[t]]
    /\ ppc' = [ppc EXCEPT ![t] = pArg[t].kind]
    /\ UNCHANGED <<pool_var, poolSeq, pArg, notPool>>

\* execute_query: conn.fetch / conn.execute returns, or raises (the error is
\* logged and raised again); either way the "async with" block is left.
QueryStatement(t) ==
    /\ ppc[t] = "query"
    /\ ppc' = [ppc EXCEPT ![t] = "release"]
    /\ \E outcome \in {"returned", "raised"} :
          pArg' = [pArg EXCEPT ![t].kind = outcome, ![t].done = 1]
    /\ UNCHANGED <<pool_var, poolSeq, acquired, notPool>>

\* execute_transaction: one conn.execute of the list returns.
PoolTransactionStatement(t) ==
    /\ ppc[t] = "transaction"
    /\ pArg[t].done < pArg[t].queries
    /\ pArg' = [pArg EXCEPT ![t].done = @ + 1]
    /\ UNCHANGED <<pool_var, poolSeq, acquired, ppc, notPool>>

\* execute_transaction: one conn.execute raises; conn.transaction() rolls
\* back and the "async with pool.acquire()" block is left by the exception.
PoolTransactionRollback(t) ==
    /\ ppc[t] = "transaction"
    /\ pArg[t].done < pArg[t].queries
    /\ ppc' = [ppc EXCEPT ![t] = "release"]
    /\ pArg' = [pArg EXCEPT ![t].kind = "raised"]
    /\ UNCHANGED <<pool_var, poolSeq, acquired, notPool>>

\* execute_transaction: the list is done; conn.transaction() commits and
\* the "async with pool.acquire()" block is left.
PoolTransactionCommit(t) ==
    /\ ppc[t] = "transaction"
    /\ pArg[t].done = pArg[t].queries
    /\ ppc' = [ppc EXCEPT ![t] = "release"]
    /\ pArg' = [pArg EXCEPT ![t].kind = "returned"]
    /\ UNCHANGED <<pool_var, poolSeq, acquired, notPool>>

\* Leaving "async with pool.acquire()": the connection goes back to its
\* pool and the call returns or raises.
Release(t) ==
    /\ ppc[t] = "release"
    /\ acquired' = [acquired EXCEPT ![t] = NonePool]
    /\ ppc' = [ppc EXCEPT ![t] = "idle"]
    /\ pArg' = [pArg EXCEPT ![t] = NoPoolCall]
    /\ UNCHANGED <<pool_var, poolSeq, notPool>>

PoolNext ==
    \E t \in Tasks :
        \/ ExecuteQuery(t)
        \/ \E queries \in 0..MaxQueries : ExecuteTransaction(t, queries)
        \/ GetPool(t)
        \/ CreatePool(t)
        \/ Acquire(t)
        \/ QueryStatement(t)
        \/ PoolTransactionStatement(t)
        \/ PoolTransactionRollback(t)
        \/ PoolTransactionCommit(t)
        \/ Release(t)

(***************************************************************************)
(* Concurrent cache callers.  Callers run create_or_update against the     *)
(* same gpt_cache table; its look-up and its UPDATE or INSERT are two      *)
(* awaited statements, and the statements of different callers interleave  *)
(* with each other, with delete_old_entries and with the clock.  The       *)
(* content_hash column is unique in the store.                             *)
(***************************************************************************)

\* Two callers: a look-up of one and a write of the other is every race
\* there is.
CacheCallers == {1, 2}

\* The email tag the concurrent callers pass.
RaceEmailPool == {"x@y"}

\* A caller's arguments; whether get_by_content_hash returned an entry is
\* kept in the caller's position.
RaceArg(content, result, email) ==
    [content |-> content, result |-> result, email |-> email]
NoRaceArg == RaceArg(<<>>, "r1", NoneVal)

RaceInit ==
    /\ cpc = [c \in CacheCallers |-> "idle"]
    /\ cArg = [c \in CacheCallers |-> NoRaceArg]
    /\ cRet = [c \in CacheCallers |-> CacheRet("none", NoRow, 0)]

RaceIdle ==
    /\ cpc = <<>>
    /\ cArg = <<>>
    /\ cRet = <<>>

\* create_or_update: "existing = await self.get_by_content_hash(...)" and
\* "if existing:".
RaceGetByContentHash(c, content, result, email) ==
    /\ cpc[c] = "idle"
    /\ cArg' = [cArg EXCEPT ![c] = RaceArg(content, result, email)]
    /\ cpc' = [cpc EXCEPT ![c] =
                 IF GetByContentHashRows(GenerateHash(content)) # {}
                 THEN "update" ELSE "insert"]
    /\ cRet' = [cRet EXCEPT ![c] = CacheRet("none", NoRow, 0)]
    /\ UNCHANGED <<gpt_cache, cacheSeq, now, cacheCall, cacheRet, notRace>>

\* create_or_update: the UPDATE ... RETURNING * and "GPTCache(**results[0])":
\* with no row left to update the list is empty and results[0] raises
\* IndexError.
RaceUpdate(c) ==
    /\ cpc[c] = "update"
    /\ LET content_hash == GenerateHash(cArg[c].content)
           results == {e \in UpdateExisting(content_hash, cArg[c].result, cArg[c].email) :
                          e.content_hash = content_hash}
       IN  /\ gpt_cache' = UpdateExisting(content_hash, cArg[c].result, cArg[c].email)
           /\ IF results = {}
              THEN cRet' = [cRet EXCEPT ![c] = CacheRet("IndexError", NoRow, 0)]
              ELSE \E row \in results :
                      cRet' = [cRet EXCEPT ![c] = CacheRet("entry", CacheEntity(row), 0)]
    /\ cpc' = [cpc EXCEPT ![c] = "idle"]
    /\ UNCHANGED <<cArg, cacheSeq, now, cacheCall, cacheRet, notRace>>

\* INSERT that the store never refuses.
CacheInsertRefusedNever(content_hash) == FALSE

\* The INSERT of create: refused by the store when the content_hash column
\* holds the value.
CacheInsertRefused(content_hash) == \E e \in gpt_cache : e.content_hash = content_hash

\* create_or_update: "return await self.create(cache)"; a refused INSERT
\* raises out of create_or_update.  The sequence moves on either way.
RaceCreate(c) ==
    /\ cpc[c] = "insert"
    /\ cacheSeq < MaxCacheIds
    /\ cacheSeq' = cacheSeq + 1
    /\ LET content_hash == GenerateHash(cArg[c].content)
           row == NewCacheRow(content_hash, cArg[c].result, cArg[c].email)
       IN  IF CacheInsertRefused(content_hash)
           THEN /\ cRet' = [cRet EXCEPT ![c] = CacheRet("StorageError", NoRow, 0)]
                /\ UNCHANGED gpt_cache
           ELSE /\ gpt_cache' = gpt_cache \cup {row}
                /\ cRet' = [cRet EXCEPT ![c] = CacheRet("entry", CacheEntity(row), 0)]
    /\ cpc' = [cpc EXCEPT ![c] = "idle"]
    /\ UNCHANGED <<cArg, now, cacheCall, cacheRet, notRace>>

\* Concurrent create_or_update calls.
WritersNext ==
    \E c \in CacheCallers :
        \/ \E content \in ContentPool, result \in ResultPool, email \in RaceEmailPool :
              RaceGetByContentHash(c, content, result, email)
        \/ RaceUpdate(c)
        \/ RaceCreate(c)

\* Concurrent create_or_update and delete_old_entries calls, while the
\* clock moves.
RaceNext ==
    \/ WritersNext
    \/ \E days \in 0..MaxDays : DeleteOldEntries(days)
    \/ Tick

(***************************************************************************)
(* Concurrent get_or_create callers.  The look-up by normalized name and   *)
(* the create are two awaited statements, and the statements of different  *)
(* callers interleave.  teams.name is unique in the store; normalized_name *)
(* is not.                                                                 *)
(***************************************************************************)

\* Two callers: a look-up of one and an insert of the other is every race
\* there is.
TeamCallers == {1, 2}

GetInit ==
    /\ gpc = [c \in TeamCallers |-> "idle"]
    /\ gName = [c \in TeamCallers |-> <<>>]
    /\ gRet = [c \in TeamCallers |-> RetNone]

GetIdle ==
    /\ gpc = <<>>
    /\ gName = <<>>
    /\ gRet = <<>>

\* get_or_create: "team = await self.get_by_name(normalized_name,
\* normalized=True)"; a team found is returned with created = False.
GetOrCreateGetByName(c, name) ==
    /\ gpc[c] = "idle"
    /\ gName' = [gName EXCEPT ![c] = name]
    /\ LET found == GetByNameRows(Normalize(name), TRUE) IN
       IF found # {}
       THEN /\ \E t \in found : gRet' = [gRet EXCEPT ![c] = Ret("team", t, FALSE)]
            /\ UNCHANGED gpc
       ELSE /\ gRet' = [gRet EXCEPT ![c] = RetNone]
            /\ gpc' = [gpc EXCEPT ![c] = "create"]
    /\ UNCHANGED <<teamVars, notGet>>

\* get_or_create: "team = Team(**team_data)" and "created_team = await
\* self.create(team)"; a name that is stored violates its unique constraint.
GetOrCreateCreate(c) ==
    /\ gpc[c] = "create"
    /\ gpc' = [gpc EXCEPT ![c] = "idle"]
    /\ LET m == TeamModel(gName[c], Normalize(gName[c])) IN
       IF ~m.ok
       THEN /\ gRet' = [gRet EXCEPT ![c] = RetError("ValidationError")]
            /\ UNCHANGED <<teams, teamSeq>>
       ELSE IF \E t \in teams : t.name = gName[c]
       THEN /\ gRet' = [gRet EXCEPT ![c] = RetError("StorageError")]
            /\ UNCHANGED <<teams, teamSeq>>
       ELSE /\ Cardinality(teams) < MaxTeams
            /\ LET row == [id |-> teamSeq + 1, name |-> m.name,
                           normalized_name |-> m.normalized_name] IN
               /\ teams' = teams \cup {row}
               /\ teamSeq' = teamSeq + 1
               /\ gRet' = [gRet EXCEPT ![c] = Ret("team", row, TRUE)]
    /\ UNCHANGED <<gName, team_aliases, aliasSeq, teamCall, teamRet, notGet>>

GetNext ==
    \E c \in TeamCallers :
        \/ \E name \in NamePool : GetOrCreateGetByName(c, name)
        \/ GetOrCreateCreate(c)

(***************************************************************************)
(* Specifications                                                          *)
(***************************************************************************)

InitNorm == NormInit /\ TeamIdle /\ CacheIdle /\ RecruitIdle /\ WriterIdle /\ CrudIdle /\ UserIdle /\ QueueIdle /\ LogIdle /\ PoolIdle /\ RaceIdle /\ GetIdle
SpecNorm == InitNorm /\ [][NormNext]_vars

InitTeam == TeamInit /\ NormIdle /\ CacheIdle /\ RecruitIdle /\ WriterIdle /\ CrudIdle /\ UserIdle /\ QueueIdle /\ LogIdle /\ PoolIdle /\ RaceIdle /\ GetIdle
SpecTeam == InitTeam /\ [][TeamNext]_vars

InitCache == CacheInit /\ NormIdle /\ TeamIdle /\ RecruitIdle /\ WriterIdle /\ CrudIdle /\ UserIdle /\ QueueIdle /\ LogIdle /\ PoolIdle /\ RaceIdle /\ GetIdle
SpecCache == InitCache /\ [][CacheNext]_vars

InitRecruit == RecruitInit /\ NormIdle /\ TeamIdle /\ CacheIdle /\ WriterIdle /\ CrudIdle /\ UserIdle /\ QueueIdle /\ LogIdle /\ PoolIdle /\ RaceIdle /\ GetIdle
SpecRecruit == InitRecruit /\ [][RecruitNext]_vars

\* The alias writers start from two stored teams and no alias.
InitWriter ==
    /\ WriterInit
    /\ teams = WriterTeams
    /\ teamSeq = Cardinality(WriterTeams)
    /\ team_aliases = {}
    /\ aliasSeq = 0
    /\ teamCall = Call("none", 0, <<>>, NoneVal)
    /\ teamRet = RetNone
    /\ NormIdle /\ CacheIdle /\ RecruitIdle /\ CrudIdle /\ UserIdle /\ QueueIdle /\ LogIdle /\ PoolIdle /\ RaceIdle /\ GetIdle
SpecWriter == InitWriter /\ [][WriterNext]_vars

InitCrud == CrudInit /\ NormIdle /\ TeamIdle /\ CacheIdle /\ RecruitIdle /\ WriterIdle /\ UserIdle /\ QueueIdle /\ LogIdle /\ PoolIdle /\ RaceIdle /\ GetIdle
SpecCrud == InitCrud /\ [][CrudNext]_vars

InitFind == FindInit /\ NormIdle /\ TeamIdle /\ CacheIdle /\ RecruitIdle /\ WriterIdle /\ UserIdle /\ QueueIdle /\ LogIdle /\ PoolIdle /\ RaceIdle /\ GetIdle
SpecFind == InitFind /\ [][FindNext]_vars

InitUser == UserInit /\ NormIdle /\ TeamIdle /\ CacheIdle /\ RecruitIdle /\ WriterIdle /\ CrudIdle /\ QueueIdle /\ LogIdle /\ PoolIdle /\ RaceIdle /\ GetIdle
SpecUser == InitUser /\ [][UserNext]_vars

InitQueue ==
    QueueInit /\ NormIdle /\ TeamIdle /\ CacheIdle /\ RecruitIdle /\ WriterIdle /\ CrudIdle /\ UserIdle /\ LogIdle /\ PoolIdle /\ RaceIdle /\ GetIdle
SpecQueue == InitQueue /\ [][QueueNext]_vars

InitLog ==
    LogInit /\ NormIdle /\ TeamIdle /\ CacheIdle /\ RecruitIdle /\ WriterIdle /\ CrudIdle /\ UserIdle /\ QueueIdle /\ PoolIdle /\ RaceIdle /\ GetIdle
SpecLog == InitLog /\ [][LogNext]_vars

InitPool ==
    PoolInit /\ NormIdle /\ TeamIdle /\ CacheIdle /\ RecruitIdle /\ WriterIdle /\ CrudIdle /\ UserIdle /\ QueueIdle /\ LogIdle /\ RaceIdle /\ GetIdle
SpecPool == InitPool /\ [][PoolNext]_vars

InitRace ==
    RaceInit /\ CacheInit /\ NormIdle /\ TeamIdle /\ RecruitIdle /\ WriterIdle /\ CrudIdle /\ UserIdle /\ QueueIdle /\ LogIdle /\ PoolIdle /\ GetIdle
SpecCacheWriters == InitRace /\ [][WritersNext]_vars
SpecCacheRace == InitRace /\ [][RaceNext]_vars

InitGet ==
    GetInit /\ TeamInit /\ NormIdle /\ CacheIdle /\ RecruitIdle /\ WriterIdle /\ CrudIdle /\ UserIdle /\ QueueIdle /\ LogIdle /\ PoolIdle /\ RaceIdle
SpecGet == InitGet /\ [][GetNext]_vars

(***************************************************************************)
(* The canonical transform of the specification, used to state the claims. *)
(***************************************************************************)

\* The reference transform, one character at a time.
RefChar(c) ==
    CASE c = " " -> <<"_">>
      [] c = "-" -> <<"_">>
      [] c = "." -> <<>>
      [] OTHER   -> <<LowerChar(c)>>

RECURSIVE RefNormalize(_)
RefNormalize(s) ==
    IF s = <<>> THEN <<>> ELSE RefChar(Head(s)) \o RefNormalize(Tail(s))

(***************************************************************************)
(* C1                                                                      *)
(***************************************************************************)

\* C1: after create_or_update(c, r) the cache holds exactly one entry whose
\* content_hash is key(c), its stored result is r, and it is the entry
\* returned; so a second call for the same content with another result
\* leaves one entry, holding the second result.
C1_UpsertLaw ==
    cacheCall.op = "create_or_update" =>
        LET rows == {e \in gpt_cache :
                        e.content_hash = GenerateHash(cacheCall.content)} IN
        /\ Cardinality(rows) = 1
        /\ \A e \in rows : /\ Loads(e.result_json) = cacheCall.result
                           /\ cacheRet.row = CacheEntity(e)
        /\ cacheRet.row.result_json = cacheCall.result

\* C1 witness: the call found an entry for the same content holding a
\* different result, and afterwards the one entry holds the new result.
C1_Witness ==
    /\ cacheCall.op = "create_or_update"
    /\ cacheCall.existing # NoRow
    /\ cacheCall.existing.content_hash = GenerateHash(cacheCall.content)
    /\ Loads(cacheCall.existing.result_json) # cacheCall.result
    /\ \E e \in gpt_cache : /\ e.id = cacheCall.existing.id
                            /\ Loads(e.result_json) = cacheCall.result

(***************************************************************************)
(* C2                                                                      *)
(***************************************************************************)

\* C2: the three deletes of delete_cascade are one transaction: while it
\* runs the stored tables are those of the moment of the call, and when one
\* of its statements has failed the recruit and every schedules and
\* extraction_feedback row are stored exactly as before the call.
C2_CascadeAtomic ==
    /\ dcPc = "transaction" => Stored = dcBefore
    /\ dcFailedAt # 0 =>
          /\ Stored = dcBefore
          /\ dcId \in recruits
          /\ dcRet = "false"

\* C2 witness: the feedback and schedule deletes succeeded, the recruit
\* delete failed, and the recruit still has a schedule and a feedback row.
C2_Witness ==
    /\ dcFailedAt = 3
    /\ dcId \in recruits
    /\ \E x \in schedules : x.recruit_id = dcId
    /\ \E x \in extraction_feedback : x.recruit_id = dcId

(***************************************************************************)
(* C5                                                                      *)
(***************************************************************************)

\* C5 as stated: in every state reached by interleaved add_alias and
\* bulk_create_aliases calls, with or without a unique constraint in the
\* store, no two alias rows carry the same alias string.
C5_NoDuplicateAlias ==
    \A a, b \in team_aliases : a.alias = b.alias => a.id = b.id

\* C5 amended: no two alias rows carry the same alias string as long as no
\* two calls have overlapped (the look-up before the insert suffices) or
\* the store enforces the unique constraint on alias.
C5_NoDuplicateAliasUnlessRace ==
    (aliasUnique \/ ~overlapped) => C5_NoDuplicateAlias

\* C5 witness: two calls overlapped under the unique constraint; one caller
\* looked its alias up, found nothing, and is about to insert it, and in the
\* meantime the other caller has stored that alias for another team.
C5_Witness ==
    /\ aliasUnique
    /\ overlapped
    /\ \E w \in Writers :
          /\ apc[w] \in {"add_create", "bulk_create"}
          /\ \E a \in team_aliases :
                /\ a.alias = aArg[w].aliases[aArg[w].idx]
                /\ a.team_id # aArg[w].team_id

(***************************************************************************)
(* C10                                                                     *)
(***************************************************************************)

\* The fields of obj that are set, the key aside, are those of row.
NonKeyFieldsKept(obj, row) ==
    /\ row.user_id = obj.user_id
    /\ obj.first_name # NoneVal => row.first_name = obj.first_name
    /\ row.created_at = obj.created_at
    /\ row.updated_at = obj.updated_at

\* C10: create(E) returns the row as stored, whose non-key fields are E's
\* non-null fields and whose key is the one the sequence generated for it,
\* and a get_by_id of the returned id right after it returns an equal value.
C10_CreateReadRoundTrip ==
    /\ crudCall.op = "create" =>
          /\ crudRet.kind = "entity"
          /\ crudRet.row \in table
          /\ NonKeyFieldsKept(crudCall.obj, crudRet.row)
          /\ crudRet.row.id = idSeq
    /\ (crudCall.op = "get_by_id" /\ crudCall.prev.kind = "entity"
            /\ crudCall.id = crudCall.prev.row.id) =>
          crudRet = crudCall.prev

(***************************************************************************)
(* C11, C12, C13                                                           *)
(***************************************************************************)

Keys(t) == {r.id : r \in t}

\* C11: an update step leaves the set of primary keys and every row other
\* than the addressed one as they were; when nothing but the key is in the
\* payload, no row changes at all and the result is what get_by_id gives.
C11_UpdateKeepsKey ==
    [][crudCall'.op = "update" =>
          /\ Keys(table') = Keys(table)
          /\ Cardinality(table') = Cardinality(table)
          /\ \A r \in table : r.id # crudCall'.id => r \in table'
          /\ crudCall'.data \subseteq {"id"} =>
                /\ table' = table
                /\ crudRet' = GetByIdResult(crudCall'.id)]_vars

\* C11 witness: update(1, {id: 2}) on a stored row 1 returned that row, and
\* no row 2 exists.
C11_Witness ==
    /\ crudCall.op = "update"
    /\ crudCall.data = {"id"}
    /\ crudCall.obj.id # crudCall.id
    /\ crudRet.kind = "entity"
    /\ crudRet.row.id = crudCall.id
    /\ crudCall.obj.id \notin Keys(table)

\* C12: delete(id) answers true exactly when it removed the row with that
\* id and changes no other row; on an id no row has, delete answers false
\* and update with something to set answers None, both leaving the table
\* as it was; neither raises.  (A step that leaves the clock alone is a
\* call.)
C12_MissingIdIsNoOp ==
    [][/\ crudCall'.op = "delete" /\ now' = now =>
             /\ crudRet'.kind = (IF crudCall'.id \in Keys(table) THEN "true" ELSE "false")
             /\ table' = {r \in table : r.id # crudCall'.id}
       /\ (crudCall'.op = "update" /\ now' = now
               /\ UpdateData(crudCall'.data) # {}
               /\ crudCall'.id \notin Keys(table)) =>
             /\ crudRet' = CrudNone
             /\ table' = table]_vars

\* C12 witness: delete of an id no row has answered false while a row is
\* stored.
C12_Witness ==
    /\ crudCall.op = "delete"
    /\ crudRet.kind = "false"
    /\ table # {}

\* C13: create names no id column in its INSERT for a type with an integer
\* key, whatever id the entity carries, so the key of the stored row is the
\* one the sequence generated.
C13_IntegerKeyOmitted ==
    crudCall.op = "create" =>
        /\ "id" \notin InsertColumns(crudCall.obj)
        /\ crudRet.kind = "entity" => crudRet.row.id = idSeq

(***************************************************************************)
(* C14                                                                     *)
(***************************************************************************)

\* The rows whose fields equal all the values of the criteria.
Matching(criteria) ==
    {r \in table :
        /\ "user_id" \in criteria.names => r.user_id = criteria.user_id
        /\ "first_name" \in criteria.names => r.first_name = criteria.first_name}

\* C14: find_by returns exactly the rows whose fields equal all supplied
\* values (all rows for no criteria), and a count with the same criteria
\* right after it gives the number of rows find_by returned.
C14_CountIsFindBy ==
    /\ crudCall.op = "find_by" => crudRet.found = Matching(crudCall.criteria)
    /\ (crudCall.op = "count" /\ crudCall.prev.kind = "list") =>
          crudRet.count = Cardinality(crudCall.prev.found)

(***************************************************************************)
(* C15                                                                     *)
(***************************************************************************)

\* C15: when a statement of delete_cascade has failed, the call has ended
\* by raising the error, not by returning a value.
C15_StorageErrorsRaise ==
    dcFailedAt # 0 => dcRet = "StorageError"

(***************************************************************************)
(* C16                                                                     *)
(***************************************************************************)

\* C16: when create_with_settings has ended, called with settings, either
\* the user and its settings are both stored or neither is; after a failed
\* settings INSERT no user row of the call is stored.
C16_UserAndSettingsAtomic ==
    /\ cwFailed => \A u \in users : u.id # cwUser
    /\ (cwPc = "idle" /\ cwRet \in {"user_and_settings", "StorageError"}
           /\ cwSettings # NoneVal) =>
          ((\E u \in users : u.id = cwUser) <=> (\E x \in user_settings : x.user_id = cwUser))

(***************************************************************************)
(* C17, C18                                                                *)
(***************************************************************************)

\* C17: after every step each queue item has processed_at set exactly when
\* its status is COMPLETED or FAILED; an update_status call (a step that
\* leaves the clock alone) leaves the addressed item with the status and the
\* error message it was given, stamped with the current time for COMPLETED
\* and FAILED and with no processed_at for QUEUED and PROCESSING.
C17_ProcessedAtFollowsStatus ==
    [][/\ \A r \in email_queue' :
             (r.processed_at # NoneTime) <=> (r.status \in {"COMPLETED", "FAILED"})
       /\ (qCall'.op = "update_status" /\ now' = now) =>
             \A r \in email_queue' : r.id = qCall'.id =>
                /\ r.status = qCall'.status
                /\ r.error_message = qCall'.error_message
                /\ r.processed_at =
                      (IF qCall'.status \in {"COMPLETED", "FAILED"} THEN now ELSE NoneTime)]_vars

\* C17 witness: an item created earlier was failed with a message, and the
\* stamp is the time of the call.
C17_Witness ==
    /\ qCall.op = "update_status"
    /\ qCall.status = "FAILED"
    /\ qCall.error_message = "boom"
    /\ \E r \in email_queue :
          /\ r.id = qCall.id
          /\ r.processed_at = now
          /\ r.created_at < now

\* a is before b in the order of the claim, and not tied with it.
StrictlyBefore(a, b) ==
    \/ a.priority > b.priority
    \/ a.priority = b.priority /\ a.created_at < b.created_at

\* C18: what get_queue_by_status returned holds only items of the requested
\* status, each once, at most limit of them and all of them when there are
\* no more than limit; no item comes after one that it is strictly before
\* in (priority descending, creation time ascending), and no matching item
\* left out is strictly before a returned one.
C18_QueueOrder ==
    qCall.op = "get_queue_by_status" =>
        LET items == qRet.items
            matching == {r \in email_queue : r.status = qCall.status}
            returned == {items[i] : i \in 1..Len(items)}
        IN  /\ returned \subseteq matching
            /\ Cardinality(returned) = Len(items)
            /\ Len(items) = (IF qCall.arg < Cardinality(matching)
                             THEN qCall.arg ELSE Cardinality(matching))
            /\ \A i, j \in 1..Len(items) : i < j => ~StrictlyBefore(items[j], items[i])
            /\ \A r \in matching \ returned, i \in 1..Len(items) :
                  ~StrictlyBefore(r, items[i])

\* C18 witness: of two queued items the one created later has the higher
\* priority, and with limit 1 it is the one returned.
C18_Witness ==
    /\ qCall.op = "get_queue_by_status"
    /\ qCall.arg = 1
    /\ Len(qRet.items) = 1
    /\ \E r \in email_queue :
          /\ r.status = qCall.status
          /\ r.priority < qRet.items[1].priority
          /\ r.created_at < qRet.items[1].created_at

(***************************************************************************)
(* C19                                                                     *)
(***************************************************************************)

\* C19: a delete_old_entries(days) step removes exactly the entries whose
\* updated_at is strictly earlier than now - days, leaves the others as
\* they are, and returns the number of entries it removed.
C19_DeleteOldByUpdatedAt ==
    [][\A days \in 0..MaxDays : DeleteOldEntries(days) =>
          /\ gpt_cache' = {e \in gpt_cache : e.updated_at >= now - days}
          /\ cacheRet'.kind = "count"
          /\ cacheRet'.count = Cardinality({e \in gpt_cache : e.updated_at < now - days})]_vars

\* C19 witness: delete_old_entries removed an entry, and an entry created
\* before the cut-off but refreshed by create_or_update since is kept.
C19_Witness ==
    /\ cacheCall.op = "delete_old_entries"
    /\ cacheRet.count >= 1
    /\ \E e \in gpt_cache : e.created_at = 0 /\ e.updated_at > e.created_at

(***************************************************************************)
(* C20                                                                     *)
(***************************************************************************)

\* C20: when bulk_create_aliases returns, called for a stored team, every
\* alias of its input list is stored as an alias row: a conflict or a
\* failure on one alias does not keep the later ones from being processed.
C20_BulkProcessesEveryAlias ==
    [][\A w \in Writers :
          (apc[w] \in {"bulk_get_by_alias", "bulk_create"} /\ apc'[w] = "idle"
              /\ TeamById(aArg[w].team_id) # {}) =>
             \A i \in 1..Len(aArg[w].aliases) :
                \E a \in team_aliases' : a.alias = aArg[w].aliases[i]]_vars

(***************************************************************************)
(* C21                                                                     *)
(***************************************************************************)

\* C21: bulk_create_aliases is all-or-nothing: when a create of the batch
\* fails, no alias row the call inserted earlier remains stored, and the
\* list it returns holds stored rows only.
C21_BulkAllOrNothing ==
    [][\A w \in Writers :
          (apc[w] = "bulk_create" /\ apc'[w] = "idle"
              /\ team_aliases' = team_aliases) =>
             /\ \A a \in team_aliases' : a.id \notin aArg[w].made
             /\ \A i \in 1..Len(aArg[w].created_aliases) :
                   aArg[w].created_aliases[i] \in team_aliases']_vars

(***************************************************************************)
(* C22                                                                     *)
(***************************************************************************)

\* The whole seconds of a difference of ticks, truncated toward zero: the
\* integer q of the difference's sign with |q| seconds <= |ticks| < |q| + 1
\* seconds.
WholeSeconds(ticks) ==
    CHOOSE q \in -(MaxStamp + 1)..(MaxStamp + 1) :
        \/ /\ ticks >= 0 /\ q >= 0
           /\ q * TicksPerSecond <= ticks /\ ticks < (q + 1) * TicksPerSecond
        \/ /\ ticks < 0 /\ q <= 0
           /\ q * TicksPerSecond >= ticks /\ ticks > (q - 1) * TicksPerSecond

\* C22: in every scraping_logs row, duration_seconds is null when end_time
\* is null, and otherwise the whole seconds of end_time - start_time of
\* that row, truncated toward zero.
C22_DurationIsTruncatedDifference ==
    \A r \in scraping_logs :
        IF r.end_time = NoneTime
        THEN r.duration_seconds = <<>>
        ELSE r.duration_seconds = <<WholeSeconds(r.end_time - r.start_time)>>

\* C22 witness: update_log_entry wrote a row whose end_time is a whole
\* second and a fraction before its start_time, and the duration stored is
\* minus one second.
C22_Witness ==
    /\ logCall.op = "update_log_entry"
    /\ \E r \in scraping_logs :
          /\ r.id = logCall.id
          /\ r.end_time # NoneTime
          /\ r.end_time < r.start_time
          /\ (r.start_time - r.end_time) > TicksPerSecond
          /\ (r.start_time - r.end_time) % TicksPerSecond # 0
          /\ r.duration_seconds = <<-1>>

(***************************************************************************)
(* C28                                                                     *)
(***************************************************************************)

\* C28: a log is completed at most once: the row update_log_entry has just
\* completed is not changed by the call that follows.
C28_CompletedOnce ==
    [][\A r \in scraping_logs :
          (logCall.op = "update_log_entry" /\ logCall.id = r.id /\ r.end_time # NoneTime)
             => r \in scraping_logs']_vars

(***************************************************************************)
(* C23                                                                     *)
(***************************************************************************)

\* C23: a call holds one connection from its acquire to its release and
\* none otherwise, so that no connection is held once every call has
\* completed, and the connections held at any time are at most the pool
\* maximum.
C23_AcquireReleaseDiscipline ==
    /\ \A t \in Tasks :
          acquired[t] # NonePool <=> ppc[t] \in {"query", "transaction", "release"}
    /\ (\A t \in Tasks : ppc[t] = "idle") => (\A t \in Tasks : acquired[t] = NonePool)
    /\ Cardinality({t \in Tasks : acquired[t] # NonePool}) <= MaxSize

(***************************************************************************)
(* C24, C25                                                                *)
(***************************************************************************)

\* C24: under concurrent create_or_update calls the cache never holds two
\* entries with the same content hash; a caller that read "absent" inserts
\* its entry when the hash is still absent, and when another caller has
\* inserted it in between its INSERT fails with the store's error, leaving
\* the cache as it is.
C24_OneEntryPerHash ==
    /\ [](\A e1, e2 \in gpt_cache : e1.content_hash = e2.content_hash => e1 = e2)
    /\ [][\A c \in CacheCallers :
             (cpc[c] = "insert" /\ cpc'[c] = "idle") =>
                LET content_hash == GenerateHash(cArg[c].content) IN
                IF \E e \in gpt_cache : e.content_hash = content_hash
                THEN /\ cRet'[c].kind = "StorageError"
                     /\ gpt_cache' = gpt_cache
                ELSE /\ cRet'[c].kind = "entry"
                     /\ cRet'[c].row.content_hash = content_hash
                     /\ cRet'[c].row.result_json = cArg[c].result
                     /\ \E e \in gpt_cache' : /\ gpt_cache' = gpt_cache \cup {e}
                                             /\ CacheEntity(e) = cRet'[c].row]_vars

\* C24 witness: both callers read "absent" for the same content; one has
\* inserted the entry and the other's insert has failed.
C24_Witness ==
    /\ \A c \in CacheCallers : cpc[c] = "idle"
    /\ cArg[1].content = cArg[2].content
    /\ cRet[1].kind = "entry"
    /\ cRet[2].kind = "StorageError"
    /\ cRet[1].row.id = cacheSeq - 1
    /\ Cardinality(GetByContentHashRows(GenerateHash(cArg[1].content))) = 1

\* C25: a create_or_update call that returns, or fails with something other
\* than an error of the store, has returned an entry with its content's
\* hash and its result, and that entry is stored when the call returns.
C25_ReturnsStoredEntry ==
    [][\A c \in CacheCallers :
          (cpc[c] # "idle" /\ cpc'[c] = "idle" /\ cRet'[c].kind # "StorageError") =>
             /\ cRet'[c].kind = "entry"
             /\ cRet'[c].row.content_hash = GenerateHash(cArg[c].content)
             /\ cRet'[c].row.result_json = cArg[c].result
             /\ \E e \in gpt_cache' : CacheEntity(e) = cRet'[c].row]_vars

(***************************************************************************)
(* C26                                                                     *)
(***************************************************************************)

\* C26: under concurrent get_or_create calls no two teams rows have the
\* same normalized_name.
C26_NormalizedNameUnique ==
    \A t1, t2 \in teams : t1.normalized_name = t2.normalized_name => t1 = t2

(***************************************************************************)
(* C27                                                                     *)
(***************************************************************************)

\* C27: create_or_update on content whose entry exists changes that entry's
\* result, email tag and updated_at only: the result and the email tag
\* become the call's arguments (the tag None when the call gives none),
\* updated_at the time of the call; id, content_hash and created_at stay,
\* and every other entry is left as it is.
C27_UpdateFrame ==
    [][\A content \in ContentPool, result \in ResultPool, email \in EmailPool :
          (CreateOrUpdate(content, result, email)
              /\ GetByContentHashRows(GenerateHash(content)) # {}) =>
             /\ \A e \in gpt_cache :
                   e.content_hash # GenerateHash(content) => e \in gpt_cache'
             /\ \A e \in gpt_cache :
                   e.content_hash = GenerateHash(content) =>
                      [e EXCEPT !.result_json = Dumps(result), !.email = email,
                                !.updated_at = now] \in gpt_cache'
             /\ Cardinality(gpt_cache') = Cardinality(gpt_cache)]_vars

\* C27 witness: a call without email found its entry tagged with an email;
\* the entry now has no tag, its creation time is older than its update
\* time, and another entry is stored beside it.
C27_Witness ==
    /\ cacheCall.op = "create_or_update"
    /\ cacheCall.existing # NoRow
    /\ cacheCall.existing.email # NoneVal
    /\ cacheCall.email = NoneVal
    /\ \E e \in gpt_cache :
          /\ e.id = cacheCall.existing.id
          /\ e.email = NoneVal
          /\ e.created_at < e.updated_at
          /\ e.created_at = cacheCall.existing.created_at
    /\ \E e \in gpt_cache : e.id # cacheCall.existing.id

(***************************************************************************)
(* C29                                                                     *)
(***************************************************************************)

\* C29: update_status validates no transition: on an item that exists it
\* succeeds whatever the item's status and the new status are, and the
\* status stored afterwards is the new one; on an id that no item has it
\* returns None and the queue stays as it is.
C29_NoTransitionValidated ==
    [][(qCall'.op = "update_status" /\ now' = now) =>
          IF \E r \in email_queue : r.id = qCall'.id
          THEN /\ qRet'.kind = "entity"
               /\ qRet'.items[1].id = qCall'.id
               /\ qRet'.items[1].status = qCall'.status
               /\ qRet'.items[1] \in email_queue'
               /\ {r.id : r \in email_queue'} = {r.id : r \in email_queue}
               /\ \A r \in email_queue : r.id # qCall'.id => r \in email_queue'
          ELSE /\ qRet'.kind = "none"
               /\ email_queue' = email_queue]_vars

\* C29 witness: update_status has moved a completed item back to QUEUED.
C29_Witness ==
    /\ qCall.op = "update_status"
    /\ qCall.prior = "COMPLETED"
    /\ qCall.status = "QUEUED"
    /\ qRet.kind = "entity"
    /\ \E r \in email_queue : r.id = qCall.id /\ r.status = "QUEUED"

(***************************************************************************)
(* C30                                                                     *)
(***************************************************************************)

\* C30: delete_cascade of an id that no recruit has returns False, starts no
\* transaction and leaves every table as it is, rows that reference the id
\* included; delete_cascade of a recruit that returns True leaves no
\* recruit with the id and no schedules or extraction_feedback row that
\* references it.
C30_DeleteCascadeOutcome ==
    /\ [](dcRet = "true" =>
            /\ dcId \in dcBefore.recruits
            /\ dcId \notin recruits
            /\ \A x \in schedules : x.recruit_id # dcId
            /\ \A x \in extraction_feedback : x.recruit_id # dcId)
    /\ [][\A recruit_id \in 1..MaxRecruits :
             (DeleteCascadeBegin(recruit_id) /\ recruit_id \notin recruits) =>
                /\ dcRet' = "false"
                /\ dcPc' = "idle"
                /\ txStep' = 0
                /\ txWork' = NoTables
                /\ Stored' = Stored]_vars

\* C30 witness: delete_cascade has returned False for an id that no recruit
\* has while a schedules row and an extraction_feedback row reference it.
C30_Witness ==
    /\ dcRet = "false"
    /\ dcFailedAt = 0
    /\ dcPc = "idle"
    /\ dcId \notin recruits
    /\ \E x \in schedules : x.recruit_id = dcId
    /\ \E x \in extraction_feedback : x.recruit_id = dcId

(***************************************************************************)
(* C3, C4, C6, C9                                                          *)
(***************************************************************************)

\* The teams each resolution strategy matches for input s, read off the
\* tables.
ExactTeams(s) == {t \in teams : t.name = s}
NormalizedTeams(s) == {t \in teams : t.normalized_name = RefNormalize(s)}
AliasTeams(s) ==
    {t \in teams : \E a \in team_aliases : a.alias = s /\ a.team_id = t.id}

\* C3: find_matching_team(s) returns the team named s exactly if there is
\* one; otherwise a team whose stored normalized_name is normalize(s) if
\* there is one; otherwise the team owning an alias row whose alias is s,
\* not normalized; otherwise None.  A later strategy never overrides an
\* earlier one.
C3_FirstMatchWins ==
    teamCall.op = "find_matching_team" =>
        LET s == teamCall.name IN
        IF ExactTeams(s) # {}
        THEN teamRet.kind = "team" /\ teamRet.row \in ExactTeams(s)
        ELSE IF NormalizedTeams(s) # {}
        THEN teamRet.kind = "team" /\ teamRet.row \in NormalizedTeams(s)
        ELSE IF AliasTeams(s) # {}
        THEN teamRet.kind = "team" /\ teamRet.row \in AliasTeams(s)
        ELSE teamRet = RetNone

\* C3 witness: s is the exact name of one team and an alias of another, and
\* the call returned the team named s.
C3_Witness ==
    /\ teamCall.op = "find_matching_team"
    /\ teamRet.kind = "team"
    /\ teamRet.row.name = teamCall.name
    /\ \E t \in AliasTeams(teamCall.name) : t.id # teamRet.row.id

\* C4: add_alias returns None and creates nothing when the team does not
\* exist; when it exists and a row with that alias string exists (for any
\* team) it returns that stored row and the alias table is unchanged; only
\* otherwise does it insert one new row for team_id, alias and source.
C4_AddAliasDedup ==
    [][teamCall'.op = "add_alias" =>
        LET c == teamCall' IN
        IF ~(\E t \in teams : t.id = c.id)
        THEN teamRet' = RetNone /\ team_aliases' = team_aliases
        ELSE IF \E a \in team_aliases : a.alias = c.name
        THEN /\ teamRet'.kind = "alias"
             /\ teamRet'.row \in team_aliases
             /\ teamRet'.row.alias = c.name
             /\ team_aliases' = team_aliases
        ELSE /\ teamRet'.kind = "alias"
             /\ teamRet'.row \notin team_aliases
             /\ team_aliases' = team_aliases \cup {teamRet'.row}
             /\ teamRet'.row.team_id = c.id
             /\ teamRet'.row.alias = c.name
             /\ teamRet'.row.source = c.source
    ]_vars

\* C4 witness: add_alias for an alias another team owns returned that other
\* team's row, with its stored source, and the table holds one row for it.
C4_Witness ==
    /\ teamCall.op = "add_alias"
    /\ teamRet.kind = "alias"
    /\ teamRet.row.team_id # teamCall.id
    /\ teamRet.row.source # teamCall.source
    /\ teamRet.row.alias = teamCall.name
    /\ Cardinality({a \in team_aliases : a.alias = teamCall.name}) = 1

\* C6: a Team created from its name alone stores normalized_name =
\* normalize(name), the resolver's transform, and so is matched by the
\* normalized-name lookup for its own name.
C6_DerivedNameIsCanonical ==
    (teamCall.op = "create" /\ teamRet.kind = "team") =>
        /\ teamRet.row.normalized_name = Normalize(teamCall.name)
        /\ teamRet.row \in GetByNameRows(Normalize(teamCall.name), TRUE)

\* C9: get_or_create(name) returns an existing team whose normalized_name is
\* normalize(name) with created = false and inserts nothing; otherwise it
\* inserts exactly one team with that name and normalized_name =
\* normalize(name) and returns it with created = true.
C9_GetOrCreateByNormalizedName ==
    [][teamCall'.op = "get_or_create" =>
        LET n == teamCall'.name IN
        IF NormalizedTeams(n) # {}
        THEN /\ teamRet'.kind = "team"
             /\ teamRet'.row \in NormalizedTeams(n)
             /\ ~teamRet'.created
             /\ teams' = teams
        ELSE /\ teamRet'.kind = "team"
             /\ teamRet'.created
             /\ teamRet'.row \notin teams
             /\ teams' = teams \cup {teamRet'.row}
             /\ teamRet'.row.name = n
             /\ teamRet'.row.normalized_name = Normalize(n)
    ]_vars

(***************************************************************************)
(* C7, C8                                                                  *)
(***************************************************************************)

FCUnitedYouth ==
    <<"F","C"," ","U","n","i","t","e","d","-","Y","o","u","t","h",".">>

\* C7: _normalize_name equals the reference transform on every input
\* (lowercase, space and hyphen to one underscore each, period deleted,
\* nothing collapsed); "FC United-Youth." gives "fc_united_youth", a double
\* space gives two underscores, and the empty string gives the empty string.
C7_NormalizeIsReference ==
    /\ normPc # "start" => normOut = RefNormalize(normIn)
    /\ Normalize(FCUnitedYouth) =
         <<"f","c","_","u","n","i","t","e","d","_","y","o","u","t","h">>
    /\ Normalize(<<"A", " ", " ", "b">>) = <<"a", "_", "_", "b">>
    /\ Normalize(<<>>) = <<>>

\* C7 witness: an input with a hyphen, a period and an uppercase letter has
\* been normalized.
C7_Witness ==
    /\ normPc = "normalized"
    /\ normIn = <<"A", "-", ".">>
    /\ normOut = <<"a", "_">>

\* C8: normalizing a normalized name changes nothing, so the parameter that
\* get_by_name(normalized=True) binds after the caller already normalized is
\* the once-normalized name.
C8_NormalizeIdempotent ==
    normPc = "queried" => (normKey = normOut /\ normKey = Normalize(normIn))

\* C8 witness: a name with separators went through both normalizations.
C8_Witness ==
    /\ normPc = "queried"
    /\ normIn = <<"A", " ", "b">>
    /\ normKey = <<"a", "_", "b">>

====
